---- MODULE Spec2Model ----
(***************************************************************************)
(* Model of the ECM promotion-admissibility verifier of                    *)
(* aura-governance-hub/tools/ecm_reference.py and verify_ecm_proof.py.     *)
(* and of the gate kernel structural_audit of ace_governance_stack.py.     *)
(*                                                                         *)
(* Python dicts are functions from key strings to values; a key that is    *)
(* missing from the dict is missing from the DOMAIN.  Python floats are    *)
(* the records Num(n, d): the rational n/d for d > 0, and the IEEE-754     *)
(* non-finite values for d = 0 (n = 0: nan, n = 1: inf, n = -1: -inf).     *)
(* Finite arithmetic is exact (binary64 rounding is not modelled).         *)
(* Ed25519 is modelled symbolically: a signature names the private key     *)
(* that made it and the payload it was made over.                          *)
(***************************************************************************)
EXTENDS Integers, Sequences, FiniteSets, TLC

\* bundle:            the promotion bundle (request and proof) the caller holds
\* numeric_tolerance: the tolerance the caller evaluates it with
\* key_manifest:      the key manifest the caller verifies it against
\* call:              the last call made on these inputs and what it returned;
\*                    NoCall until one is made and after the inputs change
VARIABLES bundle, numeric_tolerance, key_manifest, call

\* proposed_action:       the action record handed to structural_audit
\* identifiability_check: <<>> (None) or <<result>>, the tuple the supplied callable returns
\* doppler_check:         <<>> (None) or <<dict>>
\* node_split_check:      <<>> (None) or <<dict>>
VARIABLES proposed_action, identifiability_check, doppler_check, node_split_check

\* proof_json: a proof as a JSON document another party wrote: objects are
\*             key/value pairs in the order they were written
\* calls:      the calls made so far on the evaluator and the signature
\*             verifier, oldest first, each with its inputs and its report
VARIABLES proof_json, calls

audit_vars == <<proposed_action, identifiability_check, doppler_check, node_split_check>>

vars == <<bundle, numeric_tolerance, key_manifest, call, audit_vars, proof_json, calls>>

---------------------------------------------------------------------------
(* Bounds of the model *)

\* at most this many fields of the bundle (or the tolerance) differ from the baseline bundle
MaxEdits == 3

\* at most this many signatures are attached to a proof
MaxSigs == 2

\* at most this many fields of a signed proof differ from the baseline proof
MaxTamper == 1

\* at most this many inputs of structural_audit differ from the baseline audit
MaxAuditEdits == 3

\* at most this many calls are recorded in a run of calls
MaxCalls == 3

---------------------------------------------------------------------------
(* Python values *)

\* dict.get(key, default)
Get(dict, key, default) == IF key \in DOMAIN dict THEN dict[key] ELSE default

\* dict[key] = value
Put(dict, key, value) == [k \in (DOMAIN dict) \cup {key} |-> IF k = key THEN value ELSE dict[k]]

\* dict.pop(key, None)
Pop(dict, key) == [k \in (DOMAIN dict) \ {key} |-> dict[k]]

\* {}
EmptyDict == <<>>

\* None, as the value dict.get returns for a missing key
PyNone == "<None>"

\* a JSON number
Num(n, d) == [tag |-> "num", n |-> n, d |-> d]

\* a JSON string that is not the text of a number
JunkStr == [tag |-> "str", s |-> "abc"]

NaN == Num(0, 0)

PosInf == Num(1, 0)

NegInf == Num(-1, 0)

Zero == Num(0, 1)

One == Num(1, 1)

IsNaN(x) == x.d = 0 /\ x.n = 0

IsFinite(x) == x.d > 0

RECURSIVE GCD(_, _)
GCD(a, b) == IF b = 0 THEN a ELSE GCD(b, a % b)

Abs(i) == IF i < 0 THEN -i ELSE i

\* the float n/d (d > 0) in lowest terms
Norm(n, d) == LET g == GCD(Abs(n), d) IN Num(n \div g, d \div g)

\* a < b on floats: false when either side is nan
FLt(a, b) ==
    /\ ~IsNaN(a)
    /\ ~IsNaN(b)
    /\ IF a.d = 0 /\ b.d = 0 THEN a.n < b.n
       ELSE IF a.d = 0 THEN a.n < 0
       ELSE IF b.d = 0 THEN b.n > 0
       ELSE a.n * b.d < b.n * a.d

\* a > b on floats
FGt(a, b) == FLt(b, a)

\* a == b on floats: nan is equal to nothing
FEq(a, b) == ~IsNaN(a) /\ ~IsNaN(b) /\ a.n * b.d = b.n * a.d /\ (a.d = 0 <=> b.d = 0)

\* a <= b on floats
FLe(a, b) == FLt(a, b) \/ FEq(a, b)

\* a - b on floats
FSub(a, b) ==
    IF IsNaN(a) \/ IsNaN(b) THEN NaN
    ELSE IF a.d = 0 /\ b.d = 0 THEN (IF a.n = b.n THEN NaN ELSE a)
    ELSE IF a.d = 0 THEN a
    ELSE IF b.d = 0 THEN Num(-b.n, 0)
    ELSE Norm(a.n * b.d - b.n * a.d, a.d * b.d)

\* a / b on floats, for b != 0.0 (the callers test the divisor first)
FDiv(a, b) ==
    IF IsNaN(a) \/ IsNaN(b) THEN NaN
    ELSE IF a.d = 0 /\ b.d = 0 THEN NaN
    ELSE IF b.d = 0 THEN Zero
    ELSE IF a.d = 0 THEN Num(IF b.n < 0 THEN -a.n ELSE a.n, 0)
    ELSE IF b.n < 0 THEN Norm(-(a.n * b.d), a.d * (-b.n))
    ELSE Norm(a.n * b.d, a.d * b.n)

\* a * b on floats: inf * 0.0 is nan
FMul(a, b) ==
    IF IsNaN(a) \/ IsNaN(b) THEN NaN
    ELSE IF a.d = 0 \/ b.d = 0
    THEN (IF a.n = 0 \/ b.n = 0 THEN NaN
          ELSE Num(IF (a.n < 0) = (b.n < 0) THEN 1 ELSE -1, 0))
    ELSE Norm(a.n * b.n, a.d * b.d)

\* abs(a) on floats
FAbs(a) == IF a.n < 0 THEN Num(-a.n, a.d) ELSE a

\* float(value): the value of a number, an exception for anything else
PyFloat(value) ==
    IF value.tag = "num" THEN [ok |-> TRUE, val |-> value]
    ELSE [ok |-> FALSE, exc |-> "ValueError", msg |-> "could not convert string to float: 'abc'"]

---------------------------------------------------------------------------
(* Class lattice *)

CLASS_ORDER == <<"E0_SPECULATIVE", "E1_STRUCTURAL", "E2_INFORMATIONAL",
                 "E3_CAUSAL", "E4_HISTORICAL", "E5_PHYSICAL">>

Classes == {CLASS_ORDER[i] : i \in DOMAIN CLASS_ORDER}

\* a lookup that answers -1 for an unknown name instead of raising
class_index_Lenient(class_name) ==
    IF class_name \notin Classes
    THEN [ok |-> TRUE, val |-> -1]
    ELSE [ok |-> TRUE, val |-> (CHOOSE i \in DOMAIN CLASS_ORDER : CLASS_ORDER[i] = class_name) - 1]

\* CLASS_ORDER.index(class_name), zero-based; raises for an unknown name
class_index(class_name) ==
    IF class_name \notin Classes
    THEN [ok |-> FALSE, exc |-> "ValueError", msg |-> "Unknown existence class: " \o class_name]
    ELSE [ok |-> TRUE, val |-> (CHOOSE i \in DOMAIN CLASS_ORDER : CLASS_ORDER[i] = class_name) - 1]

\* validate_monotonic_transition with the skip test ahead of the backward test
validate_monotonic_transition_SkipFirst(from_class, to_class, one_step_only) ==
    LET fi == class_index(from_class)
        ti == class_index(to_class)
    IN IF ~fi.ok THEN fi
       ELSE IF ~ti.ok THEN ti
       ELSE IF one_step_only /\ ti.val # fi.val + 1 THEN [ok |-> TRUE, val |-> <<FALSE, "NON_MONOTONIC_SKIP">>]
       ELSE IF ti.val < fi.val THEN [ok |-> TRUE, val |-> <<FALSE, "NON_MONOTONIC_BACKWARD">>]
       ELSE [ok |-> TRUE, val |-> <<TRUE, "OK">>]

\* validate_monotonic_transition taking a transition to the same class for a step
validate_monotonic_transition_SelfOk(from_class, to_class, one_step_only) ==
    LET fi == class_index(from_class)
        ti == class_index(to_class)
    IN IF ~fi.ok THEN fi
       ELSE IF ~ti.ok THEN ti
       ELSE IF ti.val < fi.val THEN [ok |-> TRUE, val |-> <<FALSE, "NON_MONOTONIC_BACKWARD">>]
       ELSE IF one_step_only /\ ti.val > fi.val + 1 THEN [ok |-> TRUE, val |-> <<FALSE, "NON_MONOTONIC_SKIP">>]
       ELSE [ok |-> TRUE, val |-> <<TRUE, "OK">>]

validate_monotonic_transition(from_class, to_class, one_step_only) ==
    LET fi == class_index(from_class)
        ti == class_index(to_class)
    IN IF ~fi.ok THEN fi
       ELSE IF ~ti.ok THEN ti
       ELSE IF ti.val < fi.val THEN [ok |-> TRUE, val |-> <<FALSE, "NON_MONOTONIC_BACKWARD">>]
       ELSE IF one_step_only /\ ti.val # fi.val + 1 THEN [ok |-> TRUE, val |-> <<FALSE, "NON_MONOTONIC_SKIP">>]
       ELSE [ok |-> TRUE, val |-> <<TRUE, "OK">>]

---------------------------------------------------------------------------
(* Delta-F engine *)

\* the entries of s that are positive after np.clip(s, 0.0, None)
PositiveEntries(s) == {i \in DOMAIN s : s[i] > 0}

\* the model draws spectra whose positive entries are all equal: for these
\* p is uniform over the positive entries, the clamped zero entries add
\* nothing to the entropy, and exp(entropy) is the number of positive entries
FlatSpectrum(s) == \A i, j \in PositiveEntries(s) : s[i] = s[j]

effective_dimension_from_singulars(singular_values) ==
    IF Len(singular_values) = 0 THEN Zero
    ELSE IF PositiveEntries(singular_values) = {} THEN Zero
    ELSE Num(Cardinality(PositiveEntries(singular_values)), 1)

\* the surrogate with the ratio subtracted the wrong way round
deltaf_rank_surrogate_Reversed(prior_singulars, posterior_singulars) ==
    LET d_prior == effective_dimension_from_singulars(prior_singulars)
        d_post == effective_dimension_from_singulars(posterior_singulars)
    IN IF FLe(d_prior, Zero) THEN Zero
       ELSE FSub(FDiv(d_post, d_prior), One)

deltaf_rank_surrogate(prior_singulars, posterior_singulars) ==
    LET d_prior == effective_dimension_from_singulars(prior_singulars)
        d_post == effective_dimension_from_singulars(posterior_singulars)
    IN IF FLe(d_prior, Zero) THEN Zero
       ELSE FSub(One, FDiv(d_post, d_prior))

\* the model draws covariance matrices diag(e^k1, .., e^kn) and writes them as
\* their exponents <<k1, .., kn>>: the singular values are the e^ki, all above
\* the clamp, and the sum of their logs is the sum of the exponents
RECURSIVE SumSeq(_)
SumSeq(seq) == IF seq = <<>> THEN 0 ELSE Head(seq) + SumSeq(Tail(seq))

\* _logdet(mat) of deltaf_entropy_surrogate
LogDet(mat) == Num(SumSeq(mat), 1)

deltaf_entropy_surrogate(cov_prior, cov_post) ==
    LET log_prior == LogDet(cov_prior)
        log_post == LogDet(cov_post)
    IN IF FEq(log_prior, Zero) THEN Zero
       ELSE FSub(One, FDiv(log_post, log_prior))

deltaf_entropy_from_nats(prior_entropy_nats, posterior_entropy_nats) ==
    IF FEq(prior_entropy_nats, Zero) THEN Zero
    ELSE FSub(One, FDiv(posterior_entropy_nats, prior_entropy_nats))

\* recompute_deltaf_from_proof returning 0.0 where the code raises
recompute_deltaf_from_proof_ZeroOnError(proof) ==
    LET method == Get(proof, "method", PyNone)
        prior == Get(proof, "prior_summary", EmptyDict)
        post == Get(proof, "posterior_summary", EmptyDict)
    IN IF method = "rank_surrogate"
       THEN IF "singular_values" \notin DOMAIN prior \/ "singular_values" \notin DOMAIN post
            THEN [ok |-> TRUE, val |-> Zero]
            ELSE [ok |-> TRUE,
                  val |-> deltaf_rank_surrogate(prior["singular_values"], post["singular_values"])]
       ELSE IF method \in {"entropy_surrogate", "gaussian_transfer"}
       THEN IF "entropy_nats" \in DOMAIN prior /\ "entropy_nats" \in DOMAIN post
            THEN LET fprior == PyFloat(prior["entropy_nats"])
                     fpost == PyFloat(post["entropy_nats"])
                 IN IF ~fprior.ok THEN fprior
                    ELSE IF ~fpost.ok THEN fpost
                    ELSE [ok |-> TRUE, val |-> deltaf_entropy_from_nats(fprior.val, fpost.val)]
            ELSE [ok |-> TRUE, val |-> Zero]
       ELSE [ok |-> TRUE, val |-> Zero]

\* recompute_deltaf_from_proof taking the log-determinant path for raw covariance matrices
recompute_deltaf_from_proof_LogDet(proof) ==
    LET method == Get(proof, "method", PyNone)
        prior == Get(proof, "prior_summary", EmptyDict)
        post == Get(proof, "posterior_summary", EmptyDict)
    IN IF method = "rank_surrogate"
       THEN IF "singular_values" \notin DOMAIN prior \/ "singular_values" \notin DOMAIN post
            THEN [ok |-> FALSE, exc |-> "ValueError",
                  msg |-> "rank_surrogate requires prior/posterior singular_values"]
            ELSE [ok |-> TRUE,
                  val |-> deltaf_rank_surrogate(prior["singular_values"], post["singular_values"])]
       ELSE IF method \in {"entropy_surrogate", "gaussian_transfer"}
       THEN IF "entropy_nats" \in DOMAIN prior /\ "entropy_nats" \in DOMAIN post
            THEN LET fprior == PyFloat(prior["entropy_nats"])
                     fpost == PyFloat(post["entropy_nats"])
                 IN IF ~fprior.ok THEN fprior
                    ELSE IF ~fpost.ok THEN fpost
                    ELSE [ok |-> TRUE, val |-> deltaf_entropy_from_nats(fprior.val, fpost.val)]
            ELSE IF "covariance" \in DOMAIN prior /\ "covariance" \in DOMAIN post
            THEN [ok |-> TRUE, val |-> deltaf_entropy_surrogate(prior["covariance"], post["covariance"])]
            ELSE [ok |-> FALSE, exc |-> "ValueError",
                  msg |-> "entropy method requires entropy_nats in summaries"]
       ELSE [ok |-> FALSE, exc |-> "ValueError",
             msg |-> "Unsupported or unverifiable method: "
                     \o (IF method = PyNone THEN "None" ELSE method)]

recompute_deltaf_from_proof(proof) ==
    LET method == Get(proof, "method", PyNone)
        prior == Get(proof, "prior_summary", EmptyDict)
        post == Get(proof, "posterior_summary", EmptyDict)
    IN IF method = "rank_surrogate"
       THEN IF "singular_values" \notin DOMAIN prior \/ "singular_values" \notin DOMAIN post
            THEN [ok |-> FALSE, exc |-> "ValueError",
                  msg |-> "rank_surrogate requires prior/posterior singular_values"]
            ELSE [ok |-> TRUE,
                  val |-> deltaf_rank_surrogate(prior["singular_values"], post["singular_values"])]
       ELSE IF method \in {"entropy_surrogate", "gaussian_transfer"}
       THEN IF "entropy_nats" \in DOMAIN prior /\ "entropy_nats" \in DOMAIN post
            THEN LET fprior == PyFloat(prior["entropy_nats"])
                     fpost == PyFloat(post["entropy_nats"])
                 IN IF ~fprior.ok THEN fprior
                    ELSE IF ~fpost.ok THEN fpost
                    ELSE [ok |-> TRUE, val |-> deltaf_entropy_from_nats(fprior.val, fpost.val)]
            ELSE [ok |-> FALSE, exc |-> "ValueError",
                  msg |-> "entropy method requires entropy_nats in summaries"]
       ELSE [ok |-> FALSE, exc |-> "ValueError",
             msg |-> "Unsupported or unverifiable method: "
                     \o (IF method = PyNone THEN "None" ELSE method)]

---------------------------------------------------------------------------
(* Bundle evaluator *)

\* the names constraints are drawn from, in the order sorted() lists them
ConstraintNames == <<"c_a", "c_b">>

\* sorted(set) for a set of constraint names
Sorted(set) == SelectSeq(ConstraintNames, LAMBDA c : c \in set)

\* an exception that leaves the call: no report is returned
Raise(e) == [raised |-> e.exc, msg |-> e.msg]

\* the identity check reading the proof's id under the request's key
IdentityCheckFails_WrongKey(req, proof) ==
    Get(req, "request_id", PyNone) # Get(proof, "request_id", PyNone)

\* the identity check also rejecting a proof without signatures
IdentityCheckFails_Unsigned(req, proof) ==
    \/ Get(req, "request_id", PyNone) # Get(proof, "promotion_request_id", PyNone)
    \/ Get(proof, "signatures", <<>>) = <<>>

\* the test of the identity check: req.get("request_id") != proof.get("promotion_request_id")
IdentityCheckFails(req, proof) ==
    Get(req, "request_id", PyNone) # Get(proof, "promotion_request_id", PyNone)

\* the numeric equality check without abs()
DeltafMismatch_NoAbs(recomputed_deltaf, deltaf_claimed, tolerance) ==
    FGt(FSub(recomputed_deltaf, deltaf_claimed), tolerance)

\* the numeric equality check never firing, so that the later checks run
DeltafMismatch_Never(recomputed_deltaf, deltaf_claimed, tolerance) == FALSE

\* the test of the numeric equality check: abs(recomputed_deltaf - deltaf_claimed) > numeric_tolerance
DeltafMismatch(recomputed_deltaf, deltaf_claimed, tolerance) ==
    FGt(FAbs(FSub(recomputed_deltaf, deltaf_claimed)), tolerance)

\* a threshold test that also fires on a recomputed deltaF equal to the threshold
ThresholdCheckFails_OrEqual(recomputed_deltaf, threshold) == FLe(recomputed_deltaf, threshold)

\* the test of the threshold check: recomputed_deltaf < threshold
ThresholdCheckFails(recomputed_deltaf, threshold) == FLt(recomputed_deltaf, threshold)

\* the threshold check: a recomputed deltaF below the threshold downgrades the status
StatusAfterThreshold(status, below) == IF below THEN "REFUSE_UNCERTAIN" ELSE status

\* the constraints check vetoing only a status that was still PASS
StatusAfterConstraints_KeepsRefuse(status, missing) ==
    IF missing /\ status = "PASS" THEN "VETO_POLICY" ELSE status

\* the required-constraints check: a missing constraint sets the status to VETO_POLICY
StatusAfterConstraints(status, missing) == IF missing THEN "VETO_POLICY" ELSE status

evaluate_promotion_bundle(b, tolerance) ==
    LET req == Get(b, "promotion_request", EmptyDict)
        proof == Get(b, "promotion_proof", EmptyDict)
        monotonic == validate_monotonic_transition(Get(req, "from_class", ""), Get(req, "to_class", ""), TRUE)
        recomputed == recompute_deltaf_from_proof(proof)
        claimed == PyFloat(Get(proof, "deltaF", Zero))
        policy == Get(req, "policy_thresholds", EmptyDict)
        threshold == PyFloat(Get(policy, "deltaF_threshold", Zero))
        required_constraints == Get(policy, "required_constraints", {})
        satisfied_constraints == Get(proof, "constraints_satisfied", {})
        missing_constraints == Sorted(required_constraints \ satisfied_constraints)
        below == ThresholdCheckFails(recomputed.val, threshold.val)
        status5 == StatusAfterThreshold("PASS", below)
        reasons5 == IF below THEN <<"DELTAF_BELOW_THRESHOLD">> ELSE <<>>
        missing == missing_constraints # <<>>
        status == StatusAfterConstraints(status5, missing)
        reasons == IF missing THEN Append(reasons5, "MISSING_REQUIRED_CONSTRAINTS") ELSE reasons5
    IN IF IdentityCheckFails(req, proof)
       THEN [status |-> "VETO_POLICY", reasons |-> <<"REQUEST_PROOF_ID_MISMATCH">>]
       ELSE IF ~monotonic.ok THEN Raise(monotonic)
       ELSE IF ~monotonic.val[1]
       THEN [status |-> "VETO_POLICY", reasons |-> <<monotonic.val[2]>>]
       ELSE IF ~recomputed.ok
       THEN [status |-> "VETO_POLICY", reasons |-> <<"DELTAF_RECOMPUTE_ERROR:" \o recomputed.msg>>]
       ELSE IF ~claimed.ok THEN Raise(claimed)
       ELSE IF DeltafMismatch(recomputed.val, claimed.val, tolerance)
       THEN [status |-> "VETO_POLICY", reasons |-> <<"DELTAF_MISMATCH">>,
             recomputed_deltaF |-> recomputed.val, claimed_deltaF |-> claimed.val]
       ELSE IF ~threshold.ok THEN Raise(threshold)
       ELSE [status |-> status,
             reasons |-> IF reasons = <<>> THEN <<"OK">> ELSE reasons,
             recomputed_deltaF |-> recomputed.val,
             threshold_deltaF |-> threshold.val,
             missing_constraints |-> missing_constraints]

---------------------------------------------------------------------------
(* Canonical payload and Ed25519 signatures *)

\* the keys a proof can carry, in the order sort_keys=True lists them
SortedKeys == <<"constraints_satisfied", "deltaF", "method", "posterior_summary",
                "prior_summary", "promotion_request_id", "signatures">>

\* json.dumps(obj, sort_keys=True, ...): the key/value pairs of obj in key order
canonical_json_bytes(obj) ==
    LET ks == SelectSeq(SortedKeys, LAMBDA k : k \in DOMAIN obj)
    IN [i \in 1..Len(ks) |-> <<ks[i], obj[ks[i]]>>]

proof_payload_for_signing(proof) == canonical_json_bytes(Pop(proof, "signatures"))

\* the Ed25519 key pairs: private key bytes and the public key bytes derived from them
PrivateKeys == {"sk_a", "sk_b"}

PublicKeyOf(private_key_bytes) ==
    CASE private_key_bytes = "sk_a" -> "pk_a"
      [] private_key_bytes = "sk_b" -> "pk_b"

PublicKeys == {PublicKeyOf(sk) : sk \in PrivateKeys}

\* base64.b64encode(data).decode("ascii")
b64encode(data) == [b64 |-> data]

\* base64.b64decode(text): the data, or an exception for text that is not base64
b64decode(text) ==
    IF "b64" \in DOMAIN text THEN [ok |-> TRUE, val |-> text.b64]
    ELSE [ok |-> FALSE, exc |-> "binascii.Error", msg |-> "Incorrect padding"]

\* text that base64.b64decode rejects (its padding is wrong)
BadB64 == [junk |-> "abc"]

\* sixty-four bytes that no private key produced
ForgedSignature == [signer |-> "nobody", payload |-> <<>>]

\* b"": no signature at all
EmptyBytes == [signer |-> "", payload |-> <<>>]

sign_payload_ed25519(payload, private_key_bytes) ==
    b64encode([signer |-> PublicKeyOf(private_key_bytes), payload |-> payload])

\* a verification that checks who signed but not what was signed
verify_payload_ed25519_AnyPayload(payload, signature_b64, public_key_bytes) ==
    LET signature == b64decode(signature_b64)
    IN /\ signature.ok
       /\ public_key_bytes \in PublicKeys
       /\ signature.val.signer = public_key_bytes

verify_payload_ed25519(payload, signature_b64, public_key_bytes) ==
    LET signature == b64decode(signature_b64)
    IN /\ signature.ok
       /\ public_key_bytes \in PublicKeys
       /\ signature.val.signer = public_key_bytes
       /\ signature.val.payload = payload

\* an attachment that signs the proof with its signatures list left in
attach_signature_ed25519_SignsAll(proof, key_id, private_key_bytes) ==
    LET payload == canonical_json_bytes(proof)
        sig_b64 == sign_payload_ed25519(payload, private_key_bytes)
        entry == [key_id |-> key_id, algo |-> "Ed25519", signature_b64 |-> sig_b64]
    IN Put(proof, "signatures", Append(Get(proof, "signatures", <<>>), entry))

attach_signature_ed25519(proof, key_id, private_key_bytes) ==
    LET payload == proof_payload_for_signing(proof)
        sig_b64 == sign_payload_ed25519(payload, private_key_bytes)
        entry == [key_id |-> key_id, algo |-> "Ed25519", signature_b64 |-> sig_b64]
    IN Put(proof, "signatures", Append(Get(proof, "signatures", <<>>), entry))

\* the caller's proof after a call that worked on the proof itself, not on a copy
ProofAfterAttach_Aliased(proof, key_id, private_key_bytes) ==
    attach_signature_ed25519(proof, key_id, private_key_bytes)

\* the caller's proof after attach_signature_ed25519(proof, ...): the function
\* works on out = copy.deepcopy(proof), so the proof is as it was
ProofAfterAttach(proof, key_id, private_key_bytes) == proof

\* the algorithm name compared as written
Lower_Missing(text) == text

\* str.lower() on the algorithm names the model uses
Lower(text) ==
    CASE text = "Ed25519" -> "ed25519"
      [] text = "ED25519" -> "ed25519"
      [] text = "RSA" -> "rsa"
      [] OTHER -> text

\* the dict comprehension keys_by_id: a later item replaces an earlier one with the same key_id
RECURSIVE KeysById(_)
KeysById(items) ==
    IF items = <<>> THEN EmptyDict
    ELSE LET item == items[Len(items)]
             rest == KeysById(SubSeq(items, 1, Len(items) - 1))
         IN IF "key_id" \in DOMAIN item THEN Put(rest, item["key_id"], item) ELSE rest

\* a pass that looks at the algorithm's support before it compares the two names
CheckSignature_SupportFirst(sig, keys_by_id, payload) ==
    LET key_id == Get(sig, "key_id", PyNone)
        algo == Lower(Get(sig, "algo", ""))
        sig_b64 == Get(sig, "signature_b64", b64encode(EmptyBytes))
        key_item == keys_by_id[key_id]
        key_algo == Lower(Get(key_item, "algo", ""))
        public_key_bytes == b64decode(Get(key_item, "public_key_b64", b64encode("")))
    IN IF key_id \notin DOMAIN keys_by_id
       THEN <<"UNKNOWN_KEY_ID:" \o (IF key_id = PyNone THEN "None" ELSE key_id)>>
       ELSE IF algo # "ed25519" THEN <<"UNSUPPORTED_ALGO:" \o algo>>
       ELSE IF algo # key_algo THEN <<"ALGO_MISMATCH:" \o key_id>>
       ELSE IF ~public_key_bytes.ok THEN <<"BAD_PUBLIC_KEY_B64:" \o key_id>>
       ELSE IF verify_payload_ed25519(payload, sig_b64, public_key_bytes.val) THEN <<>>
       ELSE <<"INVALID_SIGNATURE:" \o key_id>>

\* one pass of the loop over the signatures: the error it appends, or <<>> when the signature is valid
CheckSignature(sig, keys_by_id, payload) ==
    LET key_id == Get(sig, "key_id", PyNone)
        algo == Lower(Get(sig, "algo", ""))
        sig_b64 == Get(sig, "signature_b64", b64encode(EmptyBytes))
        key_item == keys_by_id[key_id]
        key_algo == Lower(Get(key_item, "algo", ""))
        public_key_bytes == b64decode(Get(key_item, "public_key_b64", b64encode("")))
    IN IF key_id \notin DOMAIN keys_by_id
       THEN <<"UNKNOWN_KEY_ID:" \o (IF key_id = PyNone THEN "None" ELSE key_id)>>
       ELSE IF algo # key_algo THEN <<"ALGO_MISMATCH:" \o key_id>>
       ELSE IF algo # "ed25519" THEN <<"UNSUPPORTED_ALGO:" \o algo>>
       ELSE IF ~public_key_bytes.ok THEN <<"BAD_PUBLIC_KEY_B64:" \o key_id>>
       ELSE IF verify_payload_ed25519(payload, sig_b64, public_key_bytes.val) THEN <<>>
       ELSE <<"INVALID_SIGNATURE:" \o key_id>>

\* a loop that gives up at the first signature that fails
RECURSIVE VerifyLoop_StopsAtFailure(_, _, _, _, _, _, _)
VerifyLoop_StopsAtFailure(signatures, i, keys_by_id, payload, checked, valid, errors) ==
    IF i > Len(signatures) THEN [checked |-> checked, valid |-> valid, errors |-> errors]
    ELSE LET err == CheckSignature(signatures[i], keys_by_id, payload)
         IN IF err # <<>> THEN [checked |-> checked + 1, valid |-> valid, errors |-> errors \o err]
            ELSE VerifyLoop_StopsAtFailure(signatures, i + 1, keys_by_id, payload, checked + 1,
                                           valid + 1, errors)

\* the loop over the signatures from position i on, with the counters so far
RECURSIVE VerifyLoop(_, _, _, _, _, _, _)
VerifyLoop(signatures, i, keys_by_id, payload, checked, valid, errors) ==
    IF i > Len(signatures) THEN [checked |-> checked, valid |-> valid, errors |-> errors]
    ELSE LET err == CheckSignature(signatures[i], keys_by_id, payload)
         IN VerifyLoop(signatures, i + 1, keys_by_id, payload, checked + 1,
                       IF err = <<>> THEN valid + 1 ELSE valid, errors \o err)

\* all_valid that holds vacuously for no signatures
AllValid_Vacuous(checked, valid) == valid = checked

\* all_valid of the signature report
AllValid(checked, valid) == checked > 0 /\ valid = checked

verify_bundle_signatures(b, manifest) ==
    LET proof == Get(b, "promotion_proof", EmptyDict)
        signatures == Get(proof, "signatures", <<>>)
        payload == proof_payload_for_signing(proof)
        keys_by_id == KeysById(Get(manifest, "keys", <<>>))
        counts == VerifyLoop(signatures, 1, keys_by_id, payload, 0, 0, <<>>)
    IN [checked |-> counts.checked,
        valid |-> counts.valid,
        all_valid |-> AllValid(counts.checked, counts.valid),
        errors |-> counts.errors]

---------------------------------------------------------------------------
(* Composite verifier (verify_ecm_proof.py) *)

\* sig_report = None
NoSigReport == [none |-> TRUE]

\* overall_pass that leaves the signature report out
OverallPass_NoSignatures(schema_valid, eval_report, sig_report) ==
    schema_valid /\ Get(eval_report, "status", PyNone) = "PASS"

\* overall_pass of the composite report
OverallPass(schema_valid, eval_report, sig_report) ==
    LET overall_pass == schema_valid /\ Get(eval_report, "status", PyNone) = "PASS"
    IN IF sig_report # NoSigReport THEN overall_pass /\ sig_report.all_valid ELSE overall_pass

\* main() handing the bundle to the evaluator whatever the schema check said
main_EvaluatesAnyway(b, schema_valid, manifest, tolerance) ==
    LET eval == evaluate_promotion_bundle(b, tolerance)
        sig == IF manifest # <<>> THEN verify_bundle_signatures(b, manifest[1]) ELSE NoSigReport
        overall_pass == OverallPass(schema_valid, eval, sig)
    IN IF "raised" \in DOMAIN eval THEN eval
       ELSE [schema_valid |-> schema_valid,
             evaluation |-> eval,
             signatures |-> sig,
             overall_pass |-> overall_pass,
             exit_code |-> IF overall_pass THEN 0 ELSE 1]

\* main(), from the schema check on; schema_valid is the verdict of the
\* Draft7Validator and manifest is <<>> when --key-manifest is not given
main(b, schema_valid, manifest, tolerance) ==
    LET eval == IF schema_valid THEN evaluate_promotion_bundle(b, tolerance)
                ELSE [status |-> "VETO_POLICY", reasons |-> <<"SCHEMA_INVALID">>]
        sig == IF manifest # <<>> THEN verify_bundle_signatures(b, manifest[1]) ELSE NoSigReport
        overall_pass == OverallPass(schema_valid, eval, sig)
    IN IF "raised" \in DOMAIN eval THEN eval
       ELSE [schema_valid |-> schema_valid,
             evaluation |-> eval,
             signatures |-> sig,
             overall_pass |-> overall_pass,
             exit_code |-> IF overall_pass THEN 0 ELSE 1]

---------------------------------------------------------------------------
(* Gate kernel (ace_governance_stack.py) *)

\* AxiomConvergenceEngine.C_KM_S = 299_792.458
C_KM_S == Num(299792458, 1000)

\* Delta = Phi * Lambda^2; the model's factors are small or non-finite, so
\* the OverflowError of ** on a large finite float does not arise
master_admissibility(phi_utility, lambda_invariant) ==
    FMul(phi_utility, FMul(lambda_invariant, lambda_invariant))

\* test_identifiability, from the singular values of the Jacobian on: the rank
\* is the number of singular values above rank_tol (the model's singular
\* values are integers, above rank_tol iff positive) and required_rank is the
\* number of parameters
test_identifiability(singular_values, theta_size) ==
    LET rank == Cardinality({i \in DOMAIN singular_values : singular_values[i] > 0})
        required_rank == theta_size
    IN <<rank >= required_rank, rank, required_rank>>

\* ExistenceClass(int(value)): E0 = 0 .. E5 = 5, ValueError for any other integer
ExistenceClass(value) ==
    IF value \in 0..5 THEN [ok |-> TRUE, val |-> value]
    ELSE [ok |-> FALSE, exc |-> "ValueError", msg |-> ToString(value) \o " is not a valid ExistenceClass"]

PromotionDecision(allowed, reason, required_evidence) ==
    [allowed |-> allowed, reason |-> reason, required_evidence |-> required_evidence]

\* a rule whose coherence bands start strictly above 0.8 and 0.95
evaluate_existence_promotion_Strict(current_class, target_class, new_evidence_count, new_constraint_count, coherence) ==
    IF target_class # current_class + 1
    THEN PromotionDecision(FALSE, "non_monotonic_promotion", 0)
    ELSE IF new_constraint_count < 1
    THEN PromotionDecision(FALSE, "no_new_constraint", 0)
    ELSE LET required_evidence == 1 + (IF FLt(Num(4, 5), coherence) THEN 1 ELSE 0)
                                    + (IF FLt(Num(19, 20), coherence) THEN 1 ELSE 0)
         IN IF new_evidence_count < required_evidence
            THEN PromotionDecision(FALSE, "insufficient_evidence", required_evidence)
            ELSE PromotionDecision(TRUE, "promotable", required_evidence)

evaluate_existence_promotion(current_class, target_class, new_evidence_count, new_constraint_count, coherence) ==
    IF target_class # current_class + 1
    THEN PromotionDecision(FALSE, "non_monotonic_promotion", 0)
    ELSE IF new_constraint_count < 1
    THEN PromotionDecision(FALSE, "no_new_constraint", 0)
    ELSE LET required_evidence == 1 + (IF FLe(Num(4, 5), coherence) THEN 1 ELSE 0)
                                    + (IF FLe(Num(19, 20), coherence) THEN 1 ELSE 0)
         IN IF new_evidence_count < required_evidence
            THEN PromotionDecision(FALSE, "insufficient_evidence", required_evidence)
            ELSE PromotionDecision(TRUE, "promotable", required_evidence)

\* an AuditResult; rank, required_rank and doppler_ok are <<>> for None and <<value>> otherwise
AuditResult(decision, reason, delta, rank, required_rank, doppler_ok) ==
    [decision |-> decision, reason |-> reason, delta |-> delta,
     rank |-> rank, required_rank |-> required_rank, doppler_ok |-> doppler_ok]

\* the W2 test taking the action for identifiable whatever the result is
NotIdentifiable_Ignored(identifiable) == FALSE

\* the W2 test: if not identifiable
NotIdentifiable(identifiable) == ~identifiable

\* the admissibility test: if delta <= 0.0
Collapsed(delta) == FLe(delta, Zero)

\* an audit that looks at the doppler telemetry before the promotion payload
structural_audit_DopplerFirst(action, id_check, dop_check, ns_check) ==
    LET velocity == Get(action, "velocity_km_s", Zero)
        rank == IF id_check # <<>> THEN <<id_check[1][2]>> ELSE <<>>
        required_rank == IF id_check # <<>> THEN <<id_check[1][3]>> ELSE <<>>
        identifiable == IF id_check # <<>> THEN id_check[1][1]
                        ELSE Get(action, "is_identifiable", FALSE)
        has_promotion == /\ "current_existence_class" \in DOMAIN action
                         /\ "target_existence_class" \in DOMAIN action
        current_class == ExistenceClass(action["current_existence_class"])
        target_class == ExistenceClass(action["target_existence_class"])
        promotion == evaluate_existence_promotion(
                         current_class.val, target_class.val,
                         Get(action, "new_evidence_count", 0),
                         Get(action, "new_constraint_count", 0),
                         Get(action, "coherence", Zero))
        doppler_ok == IF dop_check # <<>> THEN <<Get(dop_check[1], "within_threshold", FALSE)>> ELSE <<>>
        min_node_evidence == Get(action, "min_node_evidence_score", Zero)
        node_evidence == Get(ns_check[1], "evidence_score", Zero)
        phi == Get(action, "utility", Zero)
        lambda_val == Get(action, "lambda_val", Zero)
        delta == master_admissibility(phi, lambda_val)
    IN IF FLe(C_KM_S, velocity)
       THEN AuditResult("W1_VETO", "velocity_km_s >= c violates W1 physical invariants", Zero, <<>>, <<>>, <<>>)
       ELSE IF NotIdentifiable(identifiable)
       THEN AuditResult("W2_VETO", "non-identifiable system; refusal to infer", Zero, rank, required_rank, <<>>)
       ELSE IF doppler_ok = <<FALSE>>
       THEN AuditResult("W3_VETO", "doppler telemetry inconsistent with trajectory model",
                        Zero, rank, required_rank, <<FALSE>>)
       ELSE IF has_promotion /\ ~current_class.ok THEN Raise(current_class)
       ELSE IF has_promotion /\ ~target_class.ok THEN Raise(target_class)
       ELSE IF has_promotion /\ ~promotion.allowed
       THEN AuditResult("EPISTEMIC_VETO", "existence_promotion_blocked:" \o promotion.reason,
                        Zero, rank, required_rank, <<>>)
       ELSE IF ns_check # <<>> /\ ~Get(ns_check[1], "matrix_is_symmetric", FALSE)
       THEN AuditResult("W4_VETO", "non-symmetric tangential stiffness matrix",
                        Zero, rank, required_rank, doppler_ok)
       ELSE IF ns_check # <<>> /\ FLt(node_evidence, min_node_evidence)
       THEN AuditResult("REFUSE_UNCERTAIN", "insufficient structural evidence from node-split evaluation",
                        Zero, rank, required_rank, doppler_ok)
       ELSE IF Collapsed(delta)
       THEN AuditResult("HARD_STOP", "admissibility collapsed to zero", Zero, rank, required_rank, doppler_ok)
       ELSE AuditResult("ADMISSIBLE", "all active gates passed", delta, rank, required_rank, doppler_ok)

\* structural_audit(proposed_action, identifiability_check, doppler_check, node_split_check);
\* a check is <<>> for None and <<value>> otherwise, and identifiability_check
\* holds the tuple the callable returns
structural_audit(action, id_check, dop_check, ns_check) ==
    LET velocity == Get(action, "velocity_km_s", Zero)
        rank == IF id_check # <<>> THEN <<id_check[1][2]>> ELSE <<>>
        required_rank == IF id_check # <<>> THEN <<id_check[1][3]>> ELSE <<>>
        identifiable == IF id_check # <<>> THEN id_check[1][1]
                        ELSE Get(action, "is_identifiable", FALSE)
        has_promotion == /\ "current_existence_class" \in DOMAIN action
                         /\ "target_existence_class" \in DOMAIN action
        current_class == ExistenceClass(action["current_existence_class"])
        target_class == ExistenceClass(action["target_existence_class"])
        promotion == evaluate_existence_promotion(
                         current_class.val, target_class.val,
                         Get(action, "new_evidence_count", 0),
                         Get(action, "new_constraint_count", 0),
                         Get(action, "coherence", Zero))
        doppler_ok == IF dop_check # <<>> THEN <<Get(dop_check[1], "within_threshold", FALSE)>> ELSE <<>>
        min_node_evidence == Get(action, "min_node_evidence_score", Zero)
        node_evidence == Get(ns_check[1], "evidence_score", Zero)
        phi == Get(action, "utility", Zero)
        lambda_val == Get(action, "lambda_val", Zero)
        delta == master_admissibility(phi, lambda_val)
    IN IF FLe(C_KM_S, velocity)
       THEN AuditResult("W1_VETO", "velocity_km_s >= c violates W1 physical invariants", Zero, <<>>, <<>>, <<>>)
       ELSE IF NotIdentifiable(identifiable)
       THEN AuditResult("W2_VETO", "non-identifiable system; refusal to infer", Zero, rank, required_rank, <<>>)
       ELSE IF has_promotion /\ ~current_class.ok THEN Raise(current_class)
       ELSE IF has_promotion /\ ~target_class.ok THEN Raise(target_class)
       ELSE IF has_promotion /\ ~promotion.allowed
       THEN AuditResult("EPISTEMIC_VETO", "existence_promotion_blocked:" \o promotion.reason,
                        Zero, rank, required_rank, <<>>)
       ELSE IF doppler_ok = <<FALSE>>
       THEN AuditResult("W3_VETO", "doppler telemetry inconsistent with trajectory model",
                        Zero, rank, required_rank, <<FALSE>>)
       ELSE IF ns_check # <<>> /\ ~Get(ns_check[1], "matrix_is_symmetric", FALSE)
       THEN AuditResult("W4_VETO", "non-symmetric tangential stiffness matrix",
                        Zero, rank, required_rank, doppler_ok)
       ELSE IF ns_check # <<>> /\ FLt(node_evidence, min_node_evidence)
       THEN AuditResult("REFUSE_UNCERTAIN", "insufficient structural evidence from node-split evaluation",
                        Zero, rank, required_rank, doppler_ok)
       ELSE IF Collapsed(delta)
       THEN AuditResult("HARD_STOP", "admissibility collapsed to zero", Zero, rank, required_rank, doppler_ok)
       ELSE AuditResult("ADMISSIBLE", "all active gates passed", delta, rank, required_rank, doppler_ok)

---------------------------------------------------------------------------
(* The inputs the caller builds *)

BaselineRequest ==
    [request_id |-> "req-1",
     from_class |-> "E2_INFORMATIONAL",
     to_class |-> "E3_CAUSAL",
     policy_thresholds |-> [deltaF_threshold |-> Num(1, 2), required_constraints |-> {"c_a"}]]

BaselineProof ==
    [promotion_request_id |-> "req-1",
     method |-> "entropy_surrogate",
     prior_summary |-> [entropy_nats |-> Num(2, 1)],
     posterior_summary |-> [entropy_nats |-> Num(1, 1)],
     deltaF |-> Num(1, 2),
     constraints_satisfied |-> {"c_a"},
     signatures |-> <<>>]

BaselineBundle == [promotion_request |-> BaselineRequest, promotion_proof |-> BaselineProof]

BaselineTolerance == Num(1, 4)

Tolerances == {Zero, Num(1, 4)}

KeyIds == {"key-a", "key-b"}

\* a signature entry whose bytes no key made
ForgedEntry == [key_id |-> "key-a", algo |-> "Ed25519", signature_b64 |-> b64encode(ForgedSignature)]

\* the fields of a bundle: the dict that holds the field, and its key
RequestSlots == {<<"promotion_request", k>> : k \in {"request_id", "from_class", "to_class"}}

PolicySlots == {<<"policy_thresholds", k>> : k \in {"deltaF_threshold", "required_constraints"}}

PayloadSlots == {<<"promotion_proof", k>> : k \in {"promotion_request_id", "method", "prior_summary",
                                                    "posterior_summary", "deltaF", "constraints_satisfied"}}

SignatureSlot == <<"promotion_proof", "signatures">>

Slots == RequestSlots \cup PolicySlots \cup PayloadSlots \cup {SignatureSlot}

\* the ways a caller changes a field: <<value>> writes the value, <<>> deletes the key
EditOptions(slot) ==
    CASE slot[2] = "request_id" -> {<<"req-1">>, <<>>}
      [] slot[2] = "promotion_request_id" -> {<<"req-1">>, <<"req-2">>, <<>>}
      [] slot[2] \in {"from_class", "to_class"} -> {<<c>> : c \in Classes} \cup {<<>>}
      [] slot[2] = "deltaF_threshold" -> {<<Num(1, 2)>>, <<Num(3, 4)>>, <<NaN>>, <<JunkStr>>, <<>>}
      [] slot[2] = "required_constraints" -> {<<{"c_a"}>>, <<{"c_a", "c_b"}>>, <<>>}
      [] slot[2] = "constraints_satisfied" -> {<<{"c_a"}>>, <<{"c_a", "c_b"}>>, <<>>}
      [] slot[2] = "method" -> {<<"entropy_surrogate">>, <<"rank_surrogate">>, <<"gaussian_transfer">>, <<>>}
      [] slot[2] = "prior_summary" ->
            {<<[entropy_nats |-> Num(2, 1)]>>, <<[entropy_nats |-> Zero]>>, <<[entropy_nats |-> PosInf]>>,
             <<[entropy_nats |-> JunkStr]>>, <<[singular_values |-> <<2, 2>>]>>, <<>>}
      [] slot[2] = "posterior_summary" ->
            {<<[entropy_nats |-> Num(1, 1)]>>, <<[entropy_nats |-> Num(2, 1)]>>, <<[entropy_nats |-> PosInf]>>,
             <<[singular_values |-> <<2, 0>>]>>, <<>>}
      [] slot[2] = "deltaF" -> {<<Num(1, 2)>>, <<Num(3, 4)>>, <<NaN>>, <<JunkStr>>, <<>>}
      [] slot[2] = "signatures" -> {<<(<<>>)>>, <<(<<ForgedEntry>>)>>, <<>>}

\* the dict of bundle b that holds the field
SlotDict(b, slot) ==
    IF slot[1] = "policy_thresholds" THEN b["promotion_request"]["policy_thresholds"] ELSE b[slot[1]]

\* the field as an option: <<>> when the key is missing, <<value>> otherwise
SlotGet(b, slot) ==
    LET dict == SlotDict(b, slot) IN IF slot[2] \in DOMAIN dict THEN <<dict[slot[2]]>> ELSE <<>>

\* bundle b with the dict that holds the field replaced
WithSlotDict(b, slot, dict) ==
    IF slot[1] = "policy_thresholds"
    THEN Put(b, "promotion_request", Put(b["promotion_request"], "policy_thresholds", dict))
    ELSE Put(b, slot[1], dict)

\* bundle b after  dict[key] = value  (option <<value>>)  or  del dict[key]  (option <<>>)
SlotSet(b, slot, option) ==
    WithSlotDict(b, slot, IF option = <<>> THEN Pop(SlotDict(b, slot), slot[2])
                          ELSE Put(SlotDict(b, slot), slot[2], option[1]))

\* how many of the given fields of b differ from the baseline bundle
Edited(b, slots) == Cardinality({slot \in slots : SlotGet(b, slot) # SlotGet(BaselineBundle, slot)})

Distance(b, tolerance) == Edited(b, Slots) + (IF tolerance # BaselineTolerance THEN 1 ELSE 0)

NoCall == [op |-> "none"]

\* no audit is under way: structural_audit has not been handed anything
AuditUnused ==
    /\ proposed_action = EmptyDict
    /\ identifiability_check = <<>>
    /\ doppler_check = <<>>
    /\ node_split_check = <<>>

\* no JSON document has been received and no call has been recorded
JsonUnused == proof_json = <<>>

CallsUnused == calls = <<>>

---------------------------------------------------------------------------
(* Actions *)

\* the caller writes or deletes one field of the bundle
EditBundle ==
    \E slot \in Slots : \E option \in EditOptions(slot) :
        /\ bundle' = SlotSet(bundle, slot, option)
        /\ bundle' # bundle
        /\ Distance(bundle', numeric_tolerance) <= MaxEdits
        /\ call' = NoCall
        /\ UNCHANGED <<numeric_tolerance, key_manifest, audit_vars, proof_json, calls>>

\* the caller picks another tolerance
SetTolerance ==
    \E tolerance \in Tolerances :
        /\ tolerance # numeric_tolerance
        /\ Distance(bundle, tolerance) <= MaxEdits
        /\ numeric_tolerance' = tolerance
        /\ call' = NoCall
        /\ UNCHANGED <<bundle, key_manifest, audit_vars, proof_json, calls>>

\* report = evaluate_promotion_bundle(bundle, numeric_tolerance)
Evaluate ==
    /\ call = NoCall
    /\ call' = [op |-> "evaluate_promotion_bundle",
                ret |-> evaluate_promotion_bundle(bundle, numeric_tolerance)]
    /\ UNCHANGED <<bundle, numeric_tolerance, key_manifest, audit_vars, proof_json, calls>>

EmptyManifest == [keys |-> <<>>]

\* the key manifests a caller verifies against
ItemA == [key_id |-> "key-a", algo |-> "Ed25519", public_key_b64 |-> b64encode("pk_a")]

ItemB == [key_id |-> "key-b", algo |-> "Ed25519", public_key_b64 |-> b64encode("pk_b")]

\* key-a listed with the public key of another private key
ItemAWrongKey == [key_id |-> "key-a", algo |-> "Ed25519", public_key_b64 |-> b64encode("pk_b")]

Manifests ==
    {[keys |-> <<ItemA, ItemB>>],
     [keys |-> <<ItemA>>],
     [keys |-> <<ItemAWrongKey, ItemB>>],
     EmptyManifest}

\* the private key a signer holds for each key id
PrivateKeyOf(key_id) ==
    CASE key_id = "key-a" -> "sk_a"
      [] key_id = "key-b" -> "sk_b"

\* the way each field of a signed proof is changed: <<value>> writes the value, <<>> deletes the key
TamperOptions(slot) ==
    CASE slot[2] = "promotion_request_id" -> {<<"req-2">>}
      [] slot[2] = "method" -> {<<"gaussian_transfer">>}
      [] slot[2] = "prior_summary" -> {<<[entropy_nats |-> PosInf]>>}
      [] slot[2] = "posterior_summary" -> {<<>>}
      [] slot[2] = "deltaF" -> {<<Num(3, 4)>>, <<JunkStr>>}
      [] slot[2] = "constraints_satisfied" -> {<<{"c_a", "c_b"}>>}

\* signed = attach_signature_ed25519(proof, key_id, private_key_bytes)
AttachSignature ==
    \E key_id \in KeyIds :
        /\ Len(Get(bundle["promotion_proof"], "signatures", <<>>)) < MaxSigs
        /\ bundle' = Put(bundle, "promotion_proof",
                         attach_signature_ed25519(bundle["promotion_proof"], key_id, PrivateKeyOf(key_id)))
        /\ call' = NoCall
        /\ UNCHANGED <<numeric_tolerance, key_manifest, audit_vars, proof_json, calls>>

\* a signature key-b made over another version of the proof (its deltaF was 3/4 then)
StaleEntry ==
    [key_id |-> "key-b", algo |-> "Ed25519",
     signature_b64 |-> sign_payload_ed25519(
         proof_payload_for_signing(Put(BaselineProof, "deltaF", Num(3, 4))), "sk_b")]

\* somebody appends a signature entry that was not made over this proof
InjectSignature ==
    \E entry \in {ForgedEntry, StaleEntry} :
        /\ Len(Get(bundle["promotion_proof"], "signatures", <<>>)) < MaxSigs
        /\ bundle' = SlotSet(bundle, SignatureSlot,
                             <<Append(Get(bundle["promotion_proof"], "signatures", <<>>), entry)>>)
        /\ call' = NoCall
        /\ UNCHANGED <<numeric_tolerance, key_manifest, audit_vars, proof_json, calls>>

\* somebody changes a field of the proof other than signatures that was still as in the baseline
TamperProof ==
    \E slot \in PayloadSlots : \E option \in TamperOptions(slot) :
        /\ SlotGet(bundle, slot) = SlotGet(BaselineBundle, slot)
        /\ bundle' = SlotSet(bundle, slot, option)
        /\ Edited(bundle', PayloadSlots) <= MaxTamper
        /\ call' = NoCall
        /\ UNCHANGED <<numeric_tolerance, key_manifest, audit_vars, proof_json, calls>>

\* sig_report = verify_bundle_signatures(bundle, key_manifest)
Verify ==
    /\ call = NoCall
    /\ call' = [op |-> "verify_bundle_signatures",
                ret |-> verify_bundle_signatures(bundle, key_manifest)]
    /\ UNCHANGED <<bundle, numeric_tolerance, key_manifest, audit_vars, proof_json, calls>>

\* verify_ecm_proof.py is run on the bundle, with or without --key-manifest,
\* and the schema validator accepts the bundle or not
Main ==
    \E schema_valid \in BOOLEAN : \E with_manifest \in BOOLEAN :
        /\ call = NoCall
        /\ call' = [op |-> "main",
                    schema_valid |-> schema_valid,
                    with_manifest |-> with_manifest,
                    ret |-> main(bundle, schema_valid,
                                 IF with_manifest THEN <<key_manifest>> ELSE <<>>,
                                 numeric_tolerance)]
        /\ UNCHANGED <<bundle, numeric_tolerance, key_manifest, audit_vars, proof_json, calls>>

\* the signature life cycle: a proof is signed, tampered with and verified
SigInit ==
    /\ bundle \in {BaselineBundle, SlotSet(BaselineBundle, SignatureSlot, <<>>)}
    /\ numeric_tolerance = BaselineTolerance
    /\ key_manifest \in Manifests
    /\ call = NoCall
    /\ AuditUnused /\ JsonUnused /\ CallsUnused

SigNext == AttachSignature \/ InjectSignature \/ TamperProof \/ Evaluate \/ Verify

SigSpec == SigInit /\ [][SigNext]_vars

\* the composite verifier run on a proof that is signed and tampered with
MainNext == AttachSignature \/ InjectSignature \/ TamperProof \/ Main

MainSpec == SigInit /\ [][MainNext]_vars

\* the signature a key holder makes over the baseline proof, under the label algo
LabelledEntry(key_id, algo) ==
    [key_id |-> key_id, algo |-> algo,
     signature_b64 |-> sign_payload_ed25519(proof_payload_for_signing(BaselineProof),
                                            PrivateKeyOf(key_id))]

\* an entry that names a key no manifest lists, and an algorithm that is not Ed25519
UnknownEntry == [key_id |-> "key-c", algo |-> "RSA", signature_b64 |-> b64encode(ForgedSignature)]

\* an entry with no key_id
AnonymousEntry == [algo |-> "Ed25519", signature_b64 |-> b64encode(ForgedSignature)]

\* the signature entries somebody attaches to the proof
VerifierEntries ==
    {LabelledEntry("key-a", "Ed25519"), LabelledEntry("key-b", "Ed25519"),
     LabelledEntry("key-a", "RSA"), ForgedEntry, UnknownEntry, AnonymousEntry}

\* key-a listed under another algorithm, with a public key that is not base64, or both
ItemARsa == [key_id |-> "key-a", algo |-> "RSA", public_key_b64 |-> b64encode("pk_a")]

ItemABadKey == [key_id |-> "key-a", algo |-> "Ed25519", public_key_b64 |-> BadB64]

ItemARsaBadKey == [key_id |-> "key-a", algo |-> "RSA", public_key_b64 |-> BadB64]

VerifierManifests ==
    {[keys |-> <<item, ItemB>>] : item \in {ItemA, ItemARsa, ItemABadKey, ItemARsaBadKey, ItemAWrongKey}}
        \cup {[keys |-> <<ItemB>>]}

\* somebody appends a signature entry to the proof
AppendEntry ==
    \E entry \in VerifierEntries :
        /\ Len(Get(bundle["promotion_proof"], "signatures", <<>>)) < MaxSigs
        /\ bundle' = SlotSet(bundle, SignatureSlot,
                             <<Append(Get(bundle["promotion_proof"], "signatures", <<>>), entry)>>)
        /\ call' = NoCall
        /\ UNCHANGED <<numeric_tolerance, key_manifest, audit_vars, proof_json, calls>>

\* the verifier is given another key manifest
SetManifest ==
    \E manifest \in VerifierManifests :
        /\ manifest # key_manifest
        /\ key_manifest' = manifest
        /\ call' = NoCall
        /\ UNCHANGED <<bundle, numeric_tolerance, audit_vars, proof_json, calls>>

VerifierInit ==
    /\ bundle = BaselineBundle
    /\ numeric_tolerance = BaselineTolerance
    /\ key_manifest = [keys |-> <<ItemA, ItemB>>]
    /\ call = NoCall
    /\ AuditUnused /\ JsonUnused /\ CallsUnused

VerifierNext == AppendEntry \/ SetManifest \/ Verify

\* the signature verifier on entries and manifests of every failing kind
VerifierSpec == VerifierInit /\ [][VerifierNext]_vars

\* signed = attach_signature_ed25519(proof, key_id, private_key_bytes), with the
\* caller keeping proof: the bundle holds proof as it is after the call
CallAttach ==
    \E key_id \in KeyIds :
        /\ call = NoCall
        /\ call' = [op |-> "attach_signature_ed25519",
                    key_id |-> key_id,
                    proof |-> bundle["promotion_proof"],
                    ret |-> attach_signature_ed25519(bundle["promotion_proof"], key_id, PrivateKeyOf(key_id))]
        /\ bundle' = Put(bundle, "promotion_proof",
                         ProofAfterAttach(bundle["promotion_proof"], key_id, PrivateKeyOf(key_id)))
        /\ UNCHANGED <<numeric_tolerance, key_manifest, audit_vars, proof_json, calls>>

AttachInit ==
    /\ bundle \in {BaselineBundle, SlotSet(BaselineBundle, SignatureSlot, <<>>)}
    /\ numeric_tolerance = BaselineTolerance
    /\ key_manifest = EmptyManifest
    /\ call = NoCall
    /\ AuditUnused /\ JsonUnused /\ CallsUnused

AttachNext == AttachSignature \/ InjectSignature \/ TamperProof \/ CallAttach

\* proofs that are signed, tampered with and signed again
AttachSpec == AttachInit /\ [][AttachNext]_vars

Init ==
    /\ bundle = BaselineBundle
    /\ numeric_tolerance = BaselineTolerance
    /\ key_manifest = EmptyManifest
    /\ call = NoCall
    /\ AuditUnused /\ JsonUnused /\ CallsUnused

Next == EditBundle \/ SetTolerance \/ Evaluate

Spec == Init /\ [][Next]_vars

---------------------------------------------------------------------------
(* The Delta-F engine called on the evidence of a proof *)

EvidenceSlots == {<<"promotion_proof", k>> : k \in {"method", "prior_summary", "posterior_summary"}}

\* the methods and summaries a claimant writes: <<value>> writes the value, <<>> deletes the key
EvidenceOptions(slot) ==
    CASE slot[2] = "method" ->
            {<<"entropy_surrogate">>, <<"rank_surrogate">>, <<"gaussian_transfer">>,
             <<"mutual_information">>, <<>>}
      [] slot[2] = "prior_summary" ->
            {<<[entropy_nats |-> Num(2, 1)]>>, <<[entropy_nats |-> Zero]>>, <<[entropy_nats |-> JunkStr]>>,
             <<[singular_values |-> <<2, 2>>]>>, <<[covariance |-> <<1, 1>>]>>,
             <<[entropy_nats |-> Num(2, 1), covariance |-> <<1, 1>>]>>, <<EmptyDict>>, <<>>}
      [] slot[2] = "posterior_summary" ->
            {<<[entropy_nats |-> Num(1, 1)]>>, <<[entropy_nats |-> JunkStr]>>,
             <<[singular_values |-> <<2, 0>>]>>, <<[covariance |-> <<1, 0>>]>>, <<EmptyDict>>, <<>>}

\* the claimant writes or deletes the method or a summary of the proof
EditEvidence ==
    \E slot \in EvidenceSlots : \E option \in EvidenceOptions(slot) :
        /\ bundle' = SlotSet(bundle, slot, option)
        /\ bundle' # bundle
        /\ call' = NoCall
        /\ UNCHANGED <<numeric_tolerance, key_manifest, audit_vars, proof_json, calls>>

\* recomputed_deltaf = recompute_deltaf_from_proof(proof)
Recompute ==
    /\ call = NoCall
    /\ call' = [op |-> "recompute_deltaf_from_proof",
                ret |-> recompute_deltaf_from_proof(bundle["promotion_proof"])]
    /\ UNCHANGED <<bundle, numeric_tolerance, key_manifest, audit_vars, proof_json, calls>>

EngineNext == EditEvidence \/ Recompute \/ Evaluate

EngineSpec == Init /\ [][EngineNext]_vars

---------------------------------------------------------------------------
(* The rank surrogate called on two spectra *)

\* the singular values a claimant writes: empty, all zero, flat spectra of one
\* to four positive values, and spectra with zero or negative entries, which
\* np.clip sets to zero
Spectra ==
    {<<>>, <<0>>, <<0, 0>>, <<-1>>, <<2>>, <<2, 0>>, <<2, 2>>, <<-1, 3>>,
     <<1, 1, 0>>, <<2, 2, 2>>, <<3, 3, 3, 3>>}

SummarySlots == {"prior_summary", "posterior_summary"}

\* a proof of the rank method, as test_rank_deltaf_positive builds its two spectra
RankBundle ==
    LET proof == BaselineBundle["promotion_proof"]
        ranked == Put(Put(Put(proof, "method", "rank_surrogate"),
                          "prior_summary", [singular_values |-> <<2, 2>>]),
                      "posterior_summary", [singular_values |-> <<2, 0>>])
    IN Put(BaselineBundle, "promotion_proof", ranked)

\* the claimant writes the singular values of one summary
SetSpectrum ==
    \E k \in SummarySlots : \E s \in Spectra :
        /\ bundle' = Put(bundle, "promotion_proof",
                         Put(bundle["promotion_proof"], k, [singular_values |-> s]))
        /\ bundle' # bundle
        /\ call' = NoCall
        /\ UNCHANGED <<numeric_tolerance, key_manifest, audit_vars, proof_json, calls>>

\* deltaf_rank_surrogate(prior_singulars, posterior_singulars) on the two spectra
RankSurrogate ==
    /\ call = NoCall
    /\ call' = [op |-> "deltaf_rank_surrogate",
                ret |-> deltaf_rank_surrogate(
                            bundle["promotion_proof"]["prior_summary"]["singular_values"],
                            bundle["promotion_proof"]["posterior_summary"]["singular_values"])]
    /\ UNCHANGED <<bundle, numeric_tolerance, key_manifest, audit_vars, proof_json, calls>>

RankInit ==
    /\ bundle = RankBundle
    /\ numeric_tolerance = BaselineTolerance
    /\ key_manifest = EmptyManifest
    /\ call = NoCall
    /\ AuditUnused /\ JsonUnused /\ CallsUnused

RankNext == SetSpectrum \/ RankSurrogate \/ Recompute

RankSpec == RankInit /\ [][RankNext]_vars

---------------------------------------------------------------------------
(* The class lattice called on its own *)

ClassSlots == {<<"promotion_request", "from_class">>, <<"promotion_request", "to_class">>}

\* a name that is not in CLASS_ORDER
UnknownClass == "E6_TRANSCENDENT"

\* the caller names another class, or none, as from_class or to_class
SetClass ==
    \E slot \in ClassSlots : \E option \in EditOptions(slot) \cup {<<UnknownClass>>} :
        /\ bundle' = SlotSet(bundle, slot, option)
        /\ bundle' # bundle
        /\ call' = NoCall
        /\ UNCHANGED <<numeric_tolerance, key_manifest, audit_vars, proof_json, calls>>

\* ok, reason = validate_monotonic_transition(req.get("from_class", ""), req.get("to_class", ""), one_step_only)
Validate ==
    \E one_step_only \in BOOLEAN :
        /\ call = NoCall
        /\ call' = [op |-> "validate_monotonic_transition",
                    one_step_only |-> one_step_only,
                    ret |-> validate_monotonic_transition(
                                Get(bundle["promotion_request"], "from_class", ""),
                                Get(bundle["promotion_request"], "to_class", ""),
                                one_step_only)]
        /\ UNCHANGED <<bundle, numeric_tolerance, key_manifest, audit_vars, proof_json, calls>>

\* the claimant writes another request id, or none, into the proof
SetProofId ==
    \E option \in EditOptions(<<"promotion_proof", "promotion_request_id">>) :
        /\ bundle' = SlotSet(bundle, <<"promotion_proof", "promotion_request_id">>, option)
        /\ bundle' # bundle
        /\ call' = NoCall
        /\ UNCHANGED <<numeric_tolerance, key_manifest, audit_vars, proof_json, calls>>

LatticeNext == SetClass \/ SetProofId \/ Validate \/ Evaluate

LatticeSpec == Init /\ [][LatticeNext]_vars

---------------------------------------------------------------------------
(* Canonicalization of a proof as it is written in JSON *)

\* A JSON document as json.loads hands it over, insertion order included:
\*   an object is [tag |-> "dict", items |-> the <<key, value>> pairs as written],
\*   an array is  [tag |-> "list", items |-> the values in order],
\*   a number is Num(n, d) and a string is [tag |-> "str", s |-> text].
JsonDict(items) == [tag |-> "dict", items |-> items]

JsonList(items) == [tag |-> "list", items |-> items]

JsonStr(text) == [tag |-> "str", s |-> text]

\* the keys of the documents, in the order sort_keys=True puts them
JsonKeys == <<"constraints_satisfied", "deltaF", "entropy_nats", "method", "posterior_summary",
              "prior_summary", "promotion_request_id", "signatures", "singular_values">>

\* the value an object holds under a key
ItemValue(items, key) == items[CHOOSE i \in DOMAIN items : items[i][1] = key][2]

\* the pairs of an object sorted by key
SortItems(items) ==
    LET keys == SelectSeq(JsonKeys, LAMBDA key : \E i \in DOMAIN items : items[i][1] = key)
    IN [i \in 1..Len(keys) |-> <<keys[i], ItemValue(items, keys[i])>>]

\* json.dumps(value, sort_keys=sort_keys): the text is the pairs of every
\* object, at any depth, in sorted or in insertion order; arrays keep their order
RECURSIVE JsonDumps(_, _)
JsonDumps(value, sort_keys) ==
    IF value.tag = "dict"
    THEN LET items == IF sort_keys THEN SortItems(value.items) ELSE value.items
         IN JsonDict([i \in 1..Len(items) |-> <<items[i][1], JsonDumps(items[i][2], sort_keys)>>])
    ELSE IF value.tag = "list"
    THEN JsonList([i \in 1..Len(value.items) |-> JsonDumps(value.items[i], sort_keys)])
    ELSE value

\* canonical_json_bytes writing the keys in insertion order
canonical_json_bytes_of_json_InsertionOrder(obj) == JsonDumps(obj, FALSE)

\* canonical_json_bytes(obj) for a document
canonical_json_bytes_of_json(obj) == JsonDumps(obj, TRUE)

\* payload.pop(key, None)
PopItem(obj, key) == JsonDict(SelectSeq(obj.items, LAMBDA item : item[1] # key))

\* proof_payload_for_signing(proof) for a document
proof_payload_for_signing_of_json(proof) == canonical_json_bytes_of_json(PopItem(proof, "signatures"))

\* the document as a Python value under ==: a dict is its keys and their
\* values whatever the insertion order, a list is its values in order
RECURSIVE PyValue(_)
PyValue(value) ==
    IF value.tag = "dict"
    THEN [key \in {value.items[i][1] : i \in DOMAIN value.items} |-> PyValue(ItemValue(value.items, key))]
    ELSE IF value.tag = "list"
    THEN [i \in 1..Len(value.items) |-> PyValue(value.items[i])]
    ELSE value

\* the proof as the signer wrote it
SignerJsonUnsigned ==
    JsonDict(<<
        <<"promotion_request_id", JsonStr("req-1")>>,
        <<"method", JsonStr("rank_surrogate")>>,
        <<"prior_summary", JsonDict(<< <<"singular_values", JsonList(<<Num(2, 1), Num(2, 1)>>)>>,
                                       <<"entropy_nats", Num(2, 1)>> >>)>>,
        <<"deltaF", Num(1, 2)>> >>)

\* the signature key-a made over it
SignerSignature == sign_payload_ed25519(proof_payload_for_signing_of_json(SignerJsonUnsigned), "sk_a")

SignerEntry ==
    JsonDict(<< <<"key_id", JsonStr("key-a")>>, <<"algo", JsonStr("Ed25519")>>,
                <<"signature_b64", SignerSignature>> >>)

\* the signed proof: attach_signature_ed25519 appends the key "signatures"
SignerJson == JsonDict(Append(SignerJsonUnsigned.items, <<"signatures", JsonList(<<SignerEntry>>)>>))

\* the signatures lists a copy of the proof may carry
JsonSignatureLists ==
    {JsonList(<<SignerEntry>>), JsonList(<<>>), JsonList(<<SignerEntry, SignerEntry>>)}

\* the sequence with the entries at i and i + 1 exchanged
SwapAt(seq, i) ==
    [j \in DOMAIN seq |-> IF j = i THEN seq[i + 1] ELSE IF j = i + 1 THEN seq[i] ELSE seq[j]]

\* the object with the value of the pair at position i replaced
WithItemValue(obj, i, value) ==
    JsonDict([j \in DOMAIN obj.items |-> IF j = i THEN <<obj.items[j][1], value>> ELSE obj.items[j]])

\* another party writes the proof with two neighbouring keys the other way round
ReorderKeys ==
    /\ \E i \in 1..(Len(proof_json.items) - 1) : proof_json' = JsonDict(SwapAt(proof_json.items, i))
    /\ call' = NoCall
    /\ UNCHANGED <<bundle, numeric_tolerance, key_manifest, audit_vars, calls>>

\* the same inside an object the proof holds
ReorderNestedKeys ==
    /\ \E i \in DOMAIN proof_json.items :
          /\ proof_json.items[i][2].tag = "dict"
          /\ \E j \in 1..(Len(proof_json.items[i][2].items) - 1) :
                proof_json' = WithItemValue(proof_json, i, JsonDict(SwapAt(proof_json.items[i][2].items, j)))
    /\ call' = NoCall
    /\ UNCHANGED <<bundle, numeric_tolerance, key_manifest, audit_vars, calls>>

\* the copy gets another signatures list
RewriteSignatures ==
    /\ \E i \in DOMAIN proof_json.items : \E list \in JsonSignatureLists :
          /\ proof_json.items[i][1] = "signatures"
          /\ proof_json.items[i][2] # list
          /\ proof_json' = WithItemValue(proof_json, i, list)
    /\ call' = NoCall
    /\ UNCHANGED <<bundle, numeric_tolerance, key_manifest, audit_vars, calls>>

\* the copy gets another claimed deltaF
RewriteDeltaF ==
    /\ \E i \in DOMAIN proof_json.items : \E value \in {Num(1, 2), Num(3, 4)} :
          /\ proof_json.items[i][1] = "deltaF"
          /\ proof_json.items[i][2] # value
          /\ proof_json' = WithItemValue(proof_json, i, value)
    /\ call' = NoCall
    /\ UNCHANGED <<bundle, numeric_tolerance, key_manifest, audit_vars, calls>>

\* ok = verify_payload_ed25519(proof_payload_for_signing(copy), the signer's signature, key-a's public key)
VerifyJson ==
    /\ call = NoCall
    /\ call' = [op |-> "verify_payload_ed25519",
                payload |-> proof_payload_for_signing_of_json(proof_json),
                ret |-> verify_payload_ed25519(proof_payload_for_signing_of_json(proof_json),
                                               SignerSignature, "pk_a")]
    /\ UNCHANGED <<bundle, numeric_tolerance, key_manifest, audit_vars, proof_json, calls>>

JsonInit ==
    /\ bundle = BaselineBundle
    /\ numeric_tolerance = BaselineTolerance
    /\ key_manifest = EmptyManifest
    /\ call = NoCall
    /\ proof_json = SignerJson
    /\ AuditUnused /\ CallsUnused

JsonNext == ReorderKeys \/ ReorderNestedKeys \/ RewriteSignatures \/ RewriteDeltaF \/ VerifyJson

JsonSpec == JsonInit /\ [][JsonNext]_vars

---------------------------------------------------------------------------
(* The gate kernel called on an action *)

\* the action and the checks of the module's demonstration run
BaselineAction ==
    [velocity_km_s |-> Num(95, 1),
     is_identifiable |-> TRUE,
     utility |-> Num(41, 50),
     lambda_val |-> One,
     current_existence_class |-> 2,
     target_existence_class |-> 3,
     new_evidence_count |-> 2,
     new_constraint_count |-> 1,
     coherence |-> Num(81, 100),
     min_node_evidence_score |-> Num(3, 5)]

BaselineIdentifiability == <<test_identifiability(<<3, 1>>, 2)>>

BaselineDoppler == <<[within_threshold |-> TRUE]>>

BaselineNodeSplit == <<[matrix_is_symmetric |-> TRUE, evidence_score |-> Num(5, 6)]>>

ActionKeys == DOMAIN BaselineAction

\* the ways a caller changes a field of the action: <<value>> writes the value, <<>> deletes the key
ActionOptions(key) ==
    CASE key = "velocity_km_s" -> {<<Num(95, 1)>>, <<Num(300000, 1)>>, <<>>}
      [] key = "is_identifiable" -> {<<TRUE>>, <<FALSE>>, <<>>}
      [] key = "utility" -> {<<Num(41, 50)>>, <<Zero>>, <<Num(-1, 1)>>, <<PosInf>>, <<>>}
      [] key = "lambda_val" -> {<<One>>, <<Zero>>, <<Num(1, 2)>>, <<PosInf>>, <<>>}
      [] key = "current_existence_class" -> {<<2>>, <<5>>, <<>>}
      [] key = "target_existence_class" -> {<<3>>, <<4>>, <<6>>, <<>>}
      [] key = "new_evidence_count" -> {<<2>>, <<1>>, <<3>>, <<>>}
      [] key = "new_constraint_count" -> {<<1>>, <<0>>, <<>>}
      [] key = "coherence" -> {<<Num(81, 100)>>, <<Num(19, 20)>>, <<Num(1, 2)>>, <<>>}
      [] key = "min_node_evidence_score" -> {<<Num(3, 5)>>, <<Num(9, 10)>>, <<>>}

\* the results an identifiability check returns, and None
IdentifiabilityChecks ==
    {<<>>, BaselineIdentifiability, <<test_identifiability(<<3, 0>>, 2)>>, <<test_identifiability(<<3>>, 2)>>}

DopplerChecks == {<<>>, BaselineDoppler, <<[within_threshold |-> FALSE]>>, <<EmptyDict>>}

NodeSplitChecks ==
    {<<>>, BaselineNodeSplit,
     <<[matrix_is_symmetric |-> FALSE, evidence_score |-> Num(5, 6)]>>,
     <<[matrix_is_symmetric |-> TRUE, evidence_score |-> Num(1, 2)]>>,
     <<[evidence_score |-> Num(5, 6)]>>}

\* the action after  action[key] = value  (option <<value>>)  or  del action[key]  (option <<>>)
ActionSet(action, key, option) == IF option = <<>> THEN Pop(action, key) ELSE Put(action, key, option[1])

\* the field as an option: <<>> when the key is missing, <<value>> otherwise
ActionGet(action, key) == IF key \in DOMAIN action THEN <<action[key]>> ELSE <<>>

\* how many inputs of the audit differ from the baseline audit
AuditDistance(action, id_check, dop_check, ns_check) ==
    Cardinality({key \in ActionKeys : ActionGet(action, key) # ActionGet(BaselineAction, key)})
        + (IF id_check # BaselineIdentifiability THEN 1 ELSE 0)
        + (IF dop_check # BaselineDoppler THEN 1 ELSE 0)
        + (IF ns_check # BaselineNodeSplit THEN 1 ELSE 0)

\* the caller writes or deletes one field of the action
EditAction ==
    \E key \in ActionKeys : \E option \in ActionOptions(key) :
        /\ proposed_action' = ActionSet(proposed_action, key, option)
        /\ proposed_action' # proposed_action
        /\ AuditDistance(proposed_action', identifiability_check, doppler_check, node_split_check)
               <= MaxAuditEdits
        /\ call' = NoCall
        /\ UNCHANGED <<bundle, numeric_tolerance, key_manifest, identifiability_check,
                       doppler_check, node_split_check, proof_json, calls>>

\* the caller supplies another check, or none
SetChecks ==
    \E id_check \in IdentifiabilityChecks : \E dop_check \in DopplerChecks : \E ns_check \in NodeSplitChecks :
        /\ Cardinality({name \in {"identifiability", "doppler", "node_split"} :
                           \/ name = "identifiability" /\ id_check # identifiability_check
                           \/ name = "doppler" /\ dop_check # doppler_check
                           \/ name = "node_split" /\ ns_check # node_split_check}) = 1
        /\ AuditDistance(proposed_action, id_check, dop_check, ns_check) <= MaxAuditEdits
        /\ identifiability_check' = id_check
        /\ doppler_check' = dop_check
        /\ node_split_check' = ns_check
        /\ call' = NoCall
        /\ UNCHANGED <<bundle, numeric_tolerance, key_manifest, proposed_action, proof_json, calls>>

\* result = ace.structural_audit(proposed_action, identifiability_check, doppler_check, node_split_check)
Audit ==
    /\ call = NoCall
    /\ call' = [op |-> "structural_audit",
                ret |-> structural_audit(proposed_action, identifiability_check,
                                         doppler_check, node_split_check)]
    /\ UNCHANGED <<bundle, numeric_tolerance, key_manifest, audit_vars, proof_json, calls>>

AuditInit ==
    /\ bundle = BaselineBundle
    /\ numeric_tolerance = BaselineTolerance
    /\ key_manifest = EmptyManifest
    /\ call = NoCall
    /\ proposed_action = BaselineAction
    /\ identifiability_check = BaselineIdentifiability
    /\ doppler_check = BaselineDoppler
    /\ node_split_check = BaselineNodeSplit
    /\ JsonUnused /\ CallsUnused

\* decision = ace.evaluate_existence_promotion(...) on the promotion payload of the
\* action, for a payload whose two classes are existence classes
Promote ==
    /\ call = NoCall
    /\ "current_existence_class" \in DOMAIN proposed_action
    /\ "target_existence_class" \in DOMAIN proposed_action
    /\ ExistenceClass(proposed_action["current_existence_class"]).ok
    /\ ExistenceClass(proposed_action["target_existence_class"]).ok
    /\ call' = [op |-> "evaluate_existence_promotion",
                ret |-> evaluate_existence_promotion(
                            proposed_action["current_existence_class"],
                            proposed_action["target_existence_class"],
                            Get(proposed_action, "new_evidence_count", 0),
                            Get(proposed_action, "new_constraint_count", 0),
                            Get(proposed_action, "coherence", Zero))]
    /\ UNCHANGED <<bundle, numeric_tolerance, key_manifest, audit_vars, proof_json, calls>>

AuditNext == EditAction \/ SetChecks \/ Audit \/ Promote

AuditSpec == AuditInit /\ [][AuditNext]_vars

---------------------------------------------------------------------------
(* Runs of calls on the evaluator and the signature verifier *)

\* the baseline proof signed by key-a, and the same with its deltaF changed afterwards
SignedBundle ==
    Put(BaselineBundle, "promotion_proof", attach_signature_ed25519(BaselineProof, "key-a", "sk_a"))

TamperedBundle == SlotSet(SignedBundle, <<"promotion_proof", "deltaF">>, <<Num(3, 4)>>)

RunBundles == {SignedBundle, TamperedBundle}

RunManifests == {[keys |-> <<ItemA, ItemB>>], EmptyManifest}

\* an evaluator whose reasons list is shared between calls: the reasons of
\* the evaluations made before stay in it
CallEvaluator_SharedReasons(b, tolerance, earlier) ==
    LET report == evaluate_promotion_bundle(b, tolerance)
        evaluations == SelectSeq(earlier, LAMBDA c : c.op = "evaluate_promotion_bundle")
    IN IF evaluations = <<>> THEN report
       ELSE [report EXCEPT !.reasons = evaluations[Len(evaluations)].ret.reasons \o @]

\* what a call of the evaluator returns when the calls in earlier were made
\* before it: the function reads its two arguments and the constant
\* CLASS_ORDER, and nothing an earlier call wrote
CallEvaluator(b, tolerance, earlier) == evaluate_promotion_bundle(b, tolerance)

\* the same for the signature verifier
CallVerifier(b, manifest, earlier) == verify_bundle_signatures(b, manifest)

\* the caller turns to another bundle, manifest or tolerance
SwitchInputs ==
    /\ \/ \E b \in RunBundles \ {bundle} :
              bundle' = b /\ UNCHANGED <<key_manifest, numeric_tolerance>>
       \/ \E manifest \in RunManifests \ {key_manifest} :
              key_manifest' = manifest /\ UNCHANGED <<bundle, numeric_tolerance>>
       \/ \E tolerance \in Tolerances \ {numeric_tolerance} :
              numeric_tolerance' = tolerance /\ UNCHANGED <<bundle, key_manifest>>
    /\ UNCHANGED <<call, audit_vars, proof_json, calls>>

\* report = evaluate_promotion_bundle(bundle, numeric_tolerance); neither argument is written to
RunEvaluate ==
    /\ Len(calls) < MaxCalls
    /\ calls' = Append(calls, [op |-> "evaluate_promotion_bundle",
                               args |-> <<bundle, numeric_tolerance>>,
                               ret |-> CallEvaluator(bundle, numeric_tolerance, calls)])
    /\ UNCHANGED <<bundle, numeric_tolerance, key_manifest, call, audit_vars, proof_json>>

\* sig_report = verify_bundle_signatures(bundle, key_manifest); neither argument is written to
RunVerify ==
    /\ Len(calls) < MaxCalls
    /\ calls' = Append(calls, [op |-> "verify_bundle_signatures",
                               args |-> <<bundle, key_manifest>>,
                               ret |-> CallVerifier(bundle, key_manifest, calls)])
    /\ UNCHANGED <<bundle, numeric_tolerance, key_manifest, call, audit_vars, proof_json>>

RunInit ==
    /\ bundle = SignedBundle
    /\ numeric_tolerance = BaselineTolerance
    /\ key_manifest = [keys |-> <<ItemA, ItemB>>]
    /\ call = NoCall
    /\ calls = <<>>
    /\ AuditUnused /\ JsonUnused

RunNext == SwitchInputs \/ RunEvaluate \/ RunVerify

RunSpec == RunInit /\ [][RunNext]_vars

---------------------------------------------------------------------------
(* Vocabulary of the properties: the inputs of the last call *)

Request == bundle["promotion_request"]

Proof == bundle["promotion_proof"]

FromClass == Get(Request, "from_class", "")

ToClass == Get(Request, "to_class", "")

\* position of a class of the lattice, E0 = 0 .. E5 = 5
Index(c) == CHOOSE i \in 0..5 : CLASS_ORDER[i + 1] = c

IdsMatch == Get(Request, "request_id", PyNone) = Get(Proof, "promotion_request_id", PyNone)

KnownClasses == FromClass \in Classes /\ ToClass \in Classes

OneStepUp == KnownClasses /\ Index(ToClass) = Index(FromClass) + 1

Backward == KnownClasses /\ Index(ToClass) < Index(FromClass)

Recomputed == recompute_deltaf_from_proof(Proof)

Claimed == Get(Proof, "deltaF", Zero)

Threshold == Get(Get(Request, "policy_thresholds", EmptyDict), "deltaF_threshold", Zero)

RequiredConstraints == Get(Get(Request, "policy_thresholds", EmptyDict), "required_constraints", {})

SatisfiedConstraints == Get(Proof, "constraints_satisfied", {})

Signatures == Get(Proof, "signatures", <<>>)

IsNumber(value) == value.tag = "num"

\* |recomputed - claimed| <= numeric_tolerance
WithinTolerance ==
    /\ Recomputed.ok
    /\ IsNumber(Claimed)
    /\ FLe(FAbs(FSub(Recomputed.val, Claimed)), numeric_tolerance)

\* |recomputed - claimed| > numeric_tolerance
OffByMoreThanTolerance ==
    /\ Recomputed.ok
    /\ IsNumber(Claimed)
    /\ FGt(FAbs(FSub(Recomputed.val, Claimed)), numeric_tolerance)

\* recomputed >= threshold
MeetsThreshold == Recomputed.ok /\ IsNumber(Threshold) /\ FLe(Threshold, Recomputed.val)

Evaluated == call.op = "evaluate_promotion_bundle"

\* the evaluator returned a report (it did not raise)
Reported == Evaluated /\ "status" \in DOMAIN call.ret

---------------------------------------------------------------------------
(* Properties *)

\* C1: evaluate_promotion_bundle returns PASS only if the ids match, to_class
\* is one step above from_class, the recomputation succeeded, the claimed
\* deltaF is within numeric_tolerance of the recomputed one, the recomputed
\* one is at least the threshold and no required constraint is missing; and
\* the reasons of a PASS are exactly ["OK"].
C1_PassOnlyIfAllChecksHold ==
    (Reported /\ call.ret.status = "PASS") =>
        /\ IdsMatch
        /\ OneStepUp
        /\ Recomputed.ok
        /\ WithinTolerance
        /\ MeetsThreshold
        /\ RequiredConstraints \subseteq SatisfiedConstraints
        /\ call.ret.reasons = <<"OK">>

Range(seq) == {seq[i] : i \in DOMAIN seq}

\* C2 as stated: every bundle whose claimed deltaF is off by more than the
\* tolerance gets VETO_POLICY with DELTAF_MISMATCH among the reasons.
C2_MismatchAlwaysVetoed ==
    (Evaluated /\ OffByMoreThanTolerance) =>
        /\ Reported
        /\ call.ret.status = "VETO_POLICY"
        /\ "DELTAF_MISMATCH" \in Range(call.ret.reasons)

\* C2 amended: a bundle with matching ids and a to_class one step above its
\* from_class whose claimed deltaF is off by more than the tolerance gets
\* VETO_POLICY with DELTAF_MISMATCH among the reasons, whatever the threshold,
\* the constraints and the signatures are.
C2_MismatchVetoedAfterEarlierChecks ==
    (Evaluated /\ IdsMatch /\ OneStepUp /\ OffByMoreThanTolerance) =>
        /\ Reported
        /\ call.ret.status = "VETO_POLICY"
        /\ "DELTAF_MISMATCH" \in Range(call.ret.reasons)

\* a mismatching claim was evaluated on a bundle whose threshold is not a
\* number and whose required constraints are not satisfied
C2_Witness ==
    /\ Reported
    /\ IdsMatch
    /\ OneStepUp
    /\ OffByMoreThanTolerance
    /\ ~IsNumber(Threshold)
    /\ ~(RequiredConstraints \subseteq SatisfiedConstraints)
    /\ call.ret.reasons = <<"DELTAF_MISMATCH">>

\* the signature lists a proof is given in place of its own: none at all, an
\* empty one, a forged signature, a signature made over the proof
SignatureOptions ==
    {<<>>, <<(<<>>)>>, <<(<<ForgedEntry>>)>>,
     <<Get(attach_signature_ed25519(Pop(Proof, "signatures"), "key-a", "sk_a"), "signatures", <<>>)>>}

\* C7: two bundles that differ only in promotion_proof.signatures get the
\* same report from evaluate_promotion_bundle (which takes no key manifest).
C7_SignaturesNeverGate ==
    Evaluated =>
        \A option \in SignatureOptions :
            evaluate_promotion_bundle(SlotSet(bundle, SignatureSlot, option), numeric_tolerance) = call.ret

\* a PASS was returned for a proof whose only signature is forged
C7_Witness ==
    /\ Reported
    /\ call.ret.status = "PASS"
    /\ Get(Proof, "signatures", <<>>) = <<ForgedEntry>>

\* C9: whenever the request id differs from the proof's promotion_request_id
\* the report is exactly VETO_POLICY / [REQUEST_PROOF_ID_MISMATCH], whatever
\* the other fields are.
C9_IdentityCheckFirst ==
    (Evaluated /\ ~IdsMatch) =>
        call.ret = [status |-> "VETO_POLICY", reasons |-> <<"REQUEST_PROOF_ID_MISMATCH">>]

\* an id mismatch was reported for a bundle whose class is unknown (the
\* monotonicity step would raise) and whose deltaF is not a number
C9_Witness ==
    /\ Reported
    /\ ~IdsMatch
    /\ ~KnownClasses
    /\ ~IsNumber(Claimed)
    /\ call.ret.reasons = <<"REQUEST_PROOF_ID_MISMATCH">>

\* C10: for a backward pair of lattice classes validate_monotonic_transition
\* returns (False, NON_MONOTONIC_BACKWARD) for both values of one_step_only,
\* and evaluate_promotion_bundle with matching ids returns VETO_POLICY with
\* reasons exactly [NON_MONOTONIC_BACKWARD].
C10_BackwardRejected ==
    Backward =>
        /\ \A one_step_only \in BOOLEAN :
               validate_monotonic_transition(FromClass, ToClass, one_step_only) =
                   [ok |-> TRUE, val |-> <<FALSE, "NON_MONOTONIC_BACKWARD">>]
        /\ (Evaluated /\ IdsMatch) =>
               call.ret = [status |-> "VETO_POLICY", reasons |-> <<"NON_MONOTONIC_BACKWARD">>]

\* a backward pair that is also more than one step apart was rejected as
\* backward by the evaluator
C10_Witness ==
    /\ Reported
    /\ IdsMatch
    /\ Backward
    /\ Index(ToClass) + 1 < Index(FromClass)
    /\ call.ret.reasons = <<"NON_MONOTONIC_BACKWARD">>

---------------------------------------------------------------------------
(* Properties of the signature layer and of the composite verifier *)

Verified == call.op = "verify_bundle_signatures"

MainReturned == call.op = "main" /\ "overall_pass" \in DOMAIN call.ret

\* the manifest lists key_id with algorithm Ed25519 and the public key of the
\* private key the signer holds for key_id
Listed(manifest, key_id) ==
    \E i \in DOMAIN manifest["keys"] :
        manifest["keys"][i] = [key_id |-> key_id, algo |-> "Ed25519",
                               public_key_b64 |-> b64encode(PublicKeyOf(PrivateKeyOf(key_id)))]

\* the proof without its signatures
Unsigned(proof) == Pop(proof, "signatures")

\* the entry attach_signature_ed25519 appends to this proof for key_id
AttachedEntry(proof, key_id) ==
    LET signed == attach_signature_ed25519(Unsigned(proof), key_id, PrivateKeyOf(key_id))
    IN signed["signatures"][1]

\* every signature of the proof was attached to it, as it is now, with a key the manifest lists
ProperlySigned ==
    /\ Signatures # <<>>
    /\ \A i \in DOMAIN Signatures :
           \E key_id \in KeyIds : Listed(key_manifest, key_id) /\ Signatures[i] = AttachedEntry(Proof, key_id)

\* the bundle satisfies every check of the evaluator
PassingBundle ==
    /\ IdsMatch
    /\ OneStepUp
    /\ WithinTolerance
    /\ MeetsThreshold
    /\ RequiredConstraints \subseteq SatisfiedConstraints

\* C3: a bundle that satisfies every check of the evaluator and whose proof
\* was signed by attach_signature_ed25519 with keys the manifest lists gets
\* PASS from evaluate_promotion_bundle and all_valid = true from
\* verify_bundle_signatures.
C3_SignedPassingBundle ==
    (PassingBundle /\ ProperlySigned) =>
        /\ Evaluated => (Reported /\ call.ret.status = "PASS")
        /\ Verified => call.ret.all_valid

\* a passing bundle carrying two attached signatures was verified, after a
\* field of the proof had been changed and before the signatures were attached
C3_Witness ==
    /\ PassingBundle
    /\ ProperlySigned
    /\ Len(Signatures) = 2
    /\ Edited(bundle, PayloadSlots) > 0
    /\ Verified
    /\ call.ret.all_valid
    /\ evaluate_promotion_bundle(bundle, numeric_tolerance).status = "PASS"

\* C4: all_valid is true exactly if checked > 0 and valid = checked; a proof
\* with no signatures gets checked = 0, valid = 0, all_valid = false under
\* every manifest.
C4_AllValidNotVacuous ==
    Verified =>
        /\ call.ret.all_valid <=> (call.ret.checked > 0 /\ call.ret.valid = call.ret.checked)
        /\ Signatures = <<>> =>
               (call.ret.checked = 0 /\ call.ret.valid = 0 /\ ~call.ret.all_valid)

\* a proof without signatures was verified against a manifest that lists keys
C4_Witness ==
    /\ Verified
    /\ Signatures = <<>>
    /\ key_manifest["keys"] # <<>>
    /\ call.ret = [checked |-> 0, valid |-> 0, all_valid |-> FALSE, errors |-> <<>>]

\* what the loop of verify_bundle_signatures finds for signature i of bundle b
SignatureError(b, manifest, i) ==
    CheckSignature(b["promotion_proof"]["signatures"][i], KeysById(manifest["keys"]),
                   proof_payload_for_signing(b["promotion_proof"]))

\* the signatures of bundle b that verify against the manifest
ValidSignatures(b, manifest) ==
    {i \in DOMAIN Get(b["promotion_proof"], "signatures", <<>>) : SignatureError(b, manifest, i) = <<>>}

\* a step that changes a field of the proof other than signatures and leaves
\* the signatures and the manifest alone
FieldChanged ==
    /\ \E slot \in PayloadSlots : SlotGet(bundle', slot) # SlotGet(bundle, slot)
    /\ SlotGet(bundle', SignatureSlot) = SlotGet(bundle, SignatureSlot)
    /\ key_manifest' = key_manifest

\* after the step every signature that was valid before it is reported INVALID_SIGNATURE
PreviouslyValidNowInvalid ==
    \A i \in ValidSignatures(bundle, key_manifest) :
        /\ SignatureError(bundle', key_manifest, i) = <<"INVALID_SIGNATURE:" \o Signatures[i]["key_id"]>>
        /\ ("INVALID_SIGNATURE:" \o Signatures[i]["key_id"])
               \in Range(verify_bundle_signatures(bundle', key_manifest).errors)

\* C5 as stated: after a change of a field other than signatures every
\* signature that was valid before is reported INVALID_SIGNATURE, so that
\* valid = 0 and all_valid = false.
C5_TamperInvalidatesAndValidIsZero ==
    [][(FieldChanged /\ ValidSignatures(bundle, key_manifest) # {}) =>
           /\ PreviouslyValidNowInvalid
           /\ verify_bundle_signatures(bundle', key_manifest).valid = 0
           /\ ~verify_bundle_signatures(bundle', key_manifest).all_valid]_vars

\* C5 amended: after a change of a field other than signatures every
\* signature that was valid before is reported INVALID_SIGNATURE, so that
\* all_valid = false; valid = 0 if every attached signature was valid before
\* (a signature that was invalid before can be valid for the changed proof).
C5_TamperInvalidatesValidSignatures ==
    [][(FieldChanged /\ ValidSignatures(bundle, key_manifest) # {}) =>
           /\ PreviouslyValidNowInvalid
           /\ ~verify_bundle_signatures(bundle', key_manifest).all_valid
           /\ ValidSignatures(bundle, key_manifest) = DOMAIN Signatures =>
                  verify_bundle_signatures(bundle', key_manifest).valid = 0]_vars

\* a proof was verified that carries a signature made by a listed key over
\* other contents than the proof has now, and the signature was reported invalid
C5_Witness ==
    /\ Verified
    /\ \E i \in DOMAIN Signatures : \E key_id \in KeyIds :
           /\ Listed(key_manifest, key_id)
           /\ Signatures[i]["key_id"] = key_id
           /\ Signatures[i] # AttachedEntry(Proof, key_id)
           /\ Signatures[i] # ForgedEntry
           /\ ("INVALID_SIGNATURE:" \o key_id) \in Range(call.ret.errors)
    /\ call.ret.valid = 0
    /\ ~call.ret.all_valid

\* a step that attaches a signature with a key the manifest lists
AttachListed ==
    \E key_id \in KeyIds :
        /\ Listed(key_manifest, key_id)
        /\ bundle' = Put(bundle, "promotion_proof",
                         attach_signature_ed25519(Proof, key_id, PrivateKeyOf(key_id)))
        /\ key_manifest' = key_manifest

\* C6: attaching a signature with a key the manifest lists leaves the earlier
\* signatures as they verified before and raises checked and valid of
\* verify_bundle_signatures by one each, however many signatures are there
\* (and also when the key_id repeats).
C6_AttachAddsOneValid ==
    [][AttachListed =>
           LET before == verify_bundle_signatures(bundle, key_manifest)
               after == verify_bundle_signatures(bundle', key_manifest)
           IN /\ after.checked = before.checked + 1
              /\ after.valid = before.valid + 1
              /\ ValidSignatures(bundle, key_manifest) \subseteq ValidSignatures(bundle', key_manifest)
              /\ after.errors = before.errors]_vars

\* a proof with two attached signatures of distinct key ids was verified and both are valid
C6_Witness ==
    /\ Verified
    /\ Len(Signatures) = 2
    /\ Signatures[1]["key_id"] # Signatures[2]["key_id"]
    /\ ProperlySigned
    /\ call.ret.checked = 2
    /\ call.ret.valid = 2

\* C8: overall_pass = schema_valid and (evaluation status = PASS) and (no key
\* manifest supplied or signatures.all_valid); with a manifest and no
\* signature attached it is false, and without a manifest an unsigned
\* passing bundle has it true.
C8_OverallPass ==
    MainReturned =>
        /\ call.ret.overall_pass <=>
               /\ call.schema_valid
               /\ Get(evaluate_promotion_bundle(bundle, numeric_tolerance), "status", PyNone) = "PASS"
               /\ (~call.with_manifest \/ verify_bundle_signatures(bundle, key_manifest).all_valid)
        /\ (call.with_manifest /\ Signatures = <<>>) => ~call.ret.overall_pass
        /\ (~call.with_manifest /\ Signatures = <<>> /\ call.schema_valid /\ PassingBundle) =>
               call.ret.overall_pass
        /\ call.ret.exit_code = (IF call.ret.overall_pass THEN 0 ELSE 1)

\* the composite verifier ran with a manifest that lists keys on a passing unsigned bundle
C8_Witness ==
    /\ MainReturned
    /\ call.schema_valid
    /\ call.with_manifest
    /\ key_manifest["keys"] # <<>>
    /\ PassingBundle
    /\ Signatures = <<>>
    /\ call.ret.evaluation.status = "PASS"
    /\ ~call.ret.overall_pass

\* the composite verifier ran without a manifest on a passing unsigned bundle
C8_WitnessNoManifest ==
    /\ MainReturned
    /\ call.schema_valid
    /\ ~call.with_manifest
    /\ PassingBundle
    /\ Signatures = <<>>
    /\ call.ret.signatures = NoSigReport
    /\ call.ret.overall_pass

---------------------------------------------------------------------------
(* The class lattice, one step at a time *)

Validated == call.op = "validate_monotonic_transition"

\* C11: with one_step_only = true and index(from) <= index(to),
\* validate_monotonic_transition returns (true, OK) exactly when to_class is
\* the class right above from_class and (false, NON_MONOTONIC_SKIP) for the
\* same class and for every class further up; no class is one step above
\* E5_PHYSICAL, so nothing it is called with from E5_PHYSICAL returns OK.
C11_OneStepOnly ==
    (Validated /\ call.one_step_only) =>
        /\ (KnownClasses /\ Index(FromClass) <= Index(ToClass)) =>
               call.ret = [ok |-> TRUE,
                           val |-> IF Index(ToClass) = Index(FromClass) + 1
                                   THEN <<TRUE, "OK">>
                                   ELSE <<FALSE, "NON_MONOTONIC_SKIP">>]
        /\ FromClass = "E5_PHYSICAL" => call.ret # [ok |-> TRUE, val |-> <<TRUE, "OK">>]

\* a forward transition over more than one class was refused as a skip
C11_Witness ==
    /\ Validated /\ call.one_step_only
    /\ KnownClasses /\ Index(ToClass) > Index(FromClass) + 1
    /\ call.ret = [ok |-> TRUE, val |-> <<FALSE, "NON_MONOTONIC_SKIP">>]

---------------------------------------------------------------------------
(* The order of the verdicts *)

\* PASS < REFUSE_UNCERTAIN < VETO_POLICY
StatusRank(status) ==
    CASE status = "PASS" -> 0
      [] status = "REFUSE_UNCERTAIN" -> 1
      [] status = "VETO_POLICY" -> 2

\* recomputed < threshold
BelowThreshold == Recomputed.ok /\ IsNumber(Threshold) /\ FLt(Recomputed.val, Threshold)

MissingConstraints == RequiredConstraints \ SatisfiedConstraints

\* C12: when the ids match, to_class is one step above from_class, the
\* recomputation succeeds and the claimed deltaF is within tolerance, a
\* recomputed deltaF below the threshold together with a missing required
\* constraint gives VETO_POLICY with reasons [DELTAF_BELOW_THRESHOLD,
\* MISSING_REQUIRED_CONSTRAINTS]; and the status the evaluation goes through
\* (PASS, then the status after the threshold check, then the status after
\* the constraints check, which is the one returned) never goes down in the
\* order PASS < REFUSE_UNCERTAIN < VETO_POLICY.
C12_VetoOutranksRefuse ==
    (Reported /\ IdsMatch /\ OneStepUp /\ WithinTolerance /\ IsNumber(Threshold)) =>
        LET after_threshold == StatusAfterThreshold("PASS", BelowThreshold)
            after_constraints == StatusAfterConstraints(after_threshold, MissingConstraints # {})
        IN /\ (BelowThreshold /\ MissingConstraints # {}) =>
                  /\ call.ret.status = "VETO_POLICY"
                  /\ call.ret.reasons = <<"DELTAF_BELOW_THRESHOLD", "MISSING_REQUIRED_CONSTRAINTS">>
           /\ StatusRank("PASS") <= StatusRank(after_threshold)
           /\ StatusRank(after_threshold) <= StatusRank(after_constraints)
           /\ call.ret.status = after_constraints

\* a bundle below the threshold and short of a required constraint was vetoed
C12_Witness ==
    /\ Reported /\ IdsMatch /\ OneStepUp /\ WithinTolerance
    /\ BelowThreshold /\ MissingConstraints # {}
    /\ call.ret.status = "VETO_POLICY"
    /\ Len(call.ret.reasons) = 2

---------------------------------------------------------------------------
(* What a vetoing report carries *)

Vetoed == Reported /\ call.ret.status = "VETO_POLICY"

\* C13 as stated: whichever check raised the VETO_POLICY, the later checks
\* ran and the report carries their diagnostics threshold_deltaF and
\* missing_constraints.
C13_VetoKeepsLaterDiagnostics ==
    Vetoed => {"threshold_deltaF", "missing_constraints"} \subseteq DOMAIN call.ret

\* C13, amended: a VETO_POLICY from the identity, monotonicity,
\* recomputation or numeric-equality check ends the evaluation; the report is
\* the status and that one reason (plus recomputed_deltaF and claimed_deltaF
\* for a numeric mismatch) and has no threshold_deltaF or missing_constraints.
\* Only a VETO_POLICY from the required-constraints check comes with
\* recomputed_deltaF, threshold_deltaF and the non-empty missing_constraints,
\* with MISSING_REQUIRED_CONSTRAINTS as the last reason.
C13_OnlyConstraintsVetoHasDiagnostics ==
    Vetoed =>
        IF ~IdsMatch
        THEN call.ret = [status |-> "VETO_POLICY", reasons |-> <<"REQUEST_PROOF_ID_MISMATCH">>]
        ELSE IF ~OneStepUp
        THEN /\ DOMAIN call.ret = {"status", "reasons"}
             /\ call.ret.reasons \in {<<"NON_MONOTONIC_BACKWARD">>, <<"NON_MONOTONIC_SKIP">>}
        ELSE IF ~Recomputed.ok
        THEN /\ DOMAIN call.ret = {"status", "reasons"}
             /\ Len(call.ret.reasons) = 1
        ELSE IF OffByMoreThanTolerance
        THEN call.ret = [status |-> "VETO_POLICY", reasons |-> <<"DELTAF_MISMATCH">>,
                         recomputed_deltaF |-> Recomputed.val, claimed_deltaF |-> Claimed]
        ELSE /\ DOMAIN call.ret = {"status", "reasons", "recomputed_deltaF",
                                   "threshold_deltaF", "missing_constraints"}
             /\ call.ret.reasons[Len(call.ret.reasons)] = "MISSING_REQUIRED_CONSTRAINTS"
             /\ call.ret.missing_constraints # <<>>
             /\ call.ret.recomputed_deltaF = Recomputed.val

\* a numeric mismatch on a bundle that is also short of a required
\* constraint: the report stops at the mismatch
C13_Witness ==
    /\ Vetoed /\ IdsMatch /\ OneStepUp /\ OffByMoreThanTolerance
    /\ MissingConstraints # {}
    /\ "missing_constraints" \notin DOMAIN call.ret

---------------------------------------------------------------------------
(* Evidence the engine cannot use *)

Method == Get(Proof, "method", PyNone)

PriorSummary == Get(Proof, "prior_summary", EmptyDict)

PosteriorSummary == Get(Proof, "posterior_summary", EmptyDict)

EntropyMethods == {"entropy_surrogate", "gaussian_transfer"}

SupportedMethods == {"rank_surrogate"} \cup EntropyMethods

\* both summaries carry the key
BothCarry(key) == key \in DOMAIN PriorSummary /\ key \in DOMAIN PosteriorSummary

\* the summaries lack the evidence the method requires
LacksEvidence ==
    \/ Method = "rank_surrogate" /\ ~BothCarry("singular_values")
    \/ Method \in EntropyMethods /\ ~BothCarry("entropy_nats")

\* the entropies are there but one of them is not a number
MalformedEntropy ==
    /\ Method \in EntropyMethods /\ BothCarry("entropy_nats")
    /\ ~(IsNumber(PriorSummary["entropy_nats"]) /\ IsNumber(PosteriorSummary["entropy_nats"]))

\* the reasons DELTAF_RECOMPUTE_ERROR:<detail>
RecomputeErrorReasons ==
    {"DELTAF_RECOMPUTE_ERROR:" \o detail :
        detail \in {"rank_surrogate requires prior/posterior singular_values",
                    "entropy method requires entropy_nats in summaries",
                    "Unsupported or unverifiable method: None",
                    "Unsupported or unverifiable method: mutual_information",
                    "could not convert string to float: 'abc'"}}

\* C14: for matching ids and a one-step transition, a proof whose method is
\* missing or unsupported, whose summaries lack the evidence the method
\* requires, or whose entropies are not numbers, is answered with
\* VETO_POLICY and the single reason DELTAF_RECOMPUTE_ERROR:<detail>; the
\* report carries no recomputed value (in particular not 0.0).
C14_RecomputeErrorVetoes ==
    (Evaluated /\ IdsMatch /\ OneStepUp
        /\ (Method \notin SupportedMethods \/ LacksEvidence \/ MalformedEntropy)) =>
        /\ Reported
        /\ call.ret.status = "VETO_POLICY"
        /\ Len(call.ret.reasons) = 1
        /\ call.ret.reasons[1] \in RecomputeErrorReasons
        /\ "recomputed_deltaF" \notin DOMAIN call.ret

\* an entropy method whose posterior summary has no entropy_nats was vetoed
C14_Witness ==
    /\ Reported /\ IdsMatch /\ OneStepUp
    /\ Method \in EntropyMethods /\ LacksEvidence
    /\ call.ret = [status |-> "VETO_POLICY",
                   reasons |-> <<"DELTAF_RECOMPUTE_ERROR:entropy method requires entropy_nats in summaries">>]

---------------------------------------------------------------------------
(* The evidence shapes of the entropy methods *)

RecomputeCalled == call.op = "recompute_deltaf_from_proof"

\* both summaries carry a numeric entropy_nats
EntropiesSupplied ==
    /\ BothCarry("entropy_nats")
    /\ IsNumber(PriorSummary["entropy_nats"]) /\ IsNumber(PosteriorSummary["entropy_nats"])

\* raw covariance matrices are supplied instead of entropy_nats
CovariancesSupplied ==
    /\ BothCarry("covariance")
    /\ "entropy_nats" \notin DOMAIN PriorSummary
    /\ "entropy_nats" \notin DOMAIN PosteriorSummary

\* 1 - posterior/prior, and 0.0 if the prior is 0
OneMinusRatio(prior, posterior) ==
    IF FEq(prior, Zero) THEN Zero ELSE FSub(One, FDiv(posterior, prior))

\* C15 as stated: for an entropy method, recompute returns 1 - posterior/prior
\* of the supplied entropy_nats, and returns a value as well when covariance
\* matrices are supplied instead.
C15_CovariancesAccepted ==
    (RecomputeCalled /\ Method \in EntropyMethods) =>
        /\ EntropiesSupplied =>
               call.ret = [ok |-> TRUE,
                           val |-> OneMinusRatio(PriorSummary["entropy_nats"],
                                                 PosteriorSummary["entropy_nats"])]
        /\ CovariancesSupplied => call.ret.ok

\* C15, amended: for an entropy method, recompute returns 1 - posterior/prior
\* of the supplied entropy_nats (0.0 if the prior is 0); when covariance
\* matrices are supplied instead it raises "entropy method requires
\* entropy_nats in summaries", although deltaf_entropy_surrogate gives a
\* finite value for these matrices.
C15_CovariancesRefused ==
    (RecomputeCalled /\ Method \in EntropyMethods) =>
        /\ EntropiesSupplied =>
               call.ret = [ok |-> TRUE,
                           val |-> OneMinusRatio(PriorSummary["entropy_nats"],
                                                 PosteriorSummary["entropy_nats"])]
        /\ CovariancesSupplied =>
               /\ call.ret = [ok |-> FALSE, exc |-> "ValueError",
                              msg |-> "entropy method requires entropy_nats in summaries"]
               /\ IsFinite(deltaf_entropy_surrogate(PriorSummary["covariance"],
                                                     PosteriorSummary["covariance"]))

\* recompute was called for an entropy method on covariance matrices and raised
C15_Witness ==
    /\ RecomputeCalled /\ Method \in EntropyMethods /\ CovariancesSupplied
    /\ ~call.ret.ok

---------------------------------------------------------------------------
(* Key order and the signed payload *)

JsonVerified == call.op = "verify_payload_ed25519"

\* the two proofs have the same fields and values, signatures aside
SameFieldsAndValues(a, b) == PyValue(PopItem(a, "signatures")) = PyValue(PopItem(b, "signatures"))

\* the order the keys of an object are written in
KeysAsWritten(obj) == [i \in DOMAIN obj.items |-> obj.items[i][1]]

\* C16: a copy of the signer's proof with the same fields and values, however
\* the keys of the proof and of the objects in it are ordered and whatever
\* its signatures list is, has the same payload for signing as the signer's
\* proof, and the signer's signature verifies over it.
C16_KeyOrderIndependent ==
    SameFieldsAndValues(SignerJson, proof_json) =>
        /\ proof_payload_for_signing_of_json(proof_json) = proof_payload_for_signing_of_json(SignerJson)
        /\ JsonVerified => call.ret

\* the signature verified over a copy whose keys are ordered differently at
\* both depths and whose signatures list differs
C16_Witness ==
    /\ JsonVerified /\ call.ret
    /\ SameFieldsAndValues(SignerJson, proof_json)
    /\ KeysAsWritten(proof_json) # KeysAsWritten(SignerJson)
    /\ KeysAsWritten(ItemValue(proof_json.items, "prior_summary"))
           # KeysAsWritten(ItemValue(SignerJson.items, "prior_summary"))
    /\ ItemValue(proof_json.items, "signatures") # ItemValue(SignerJson.items, "signatures")

---------------------------------------------------------------------------
(* The gates of structural_audit *)

Audited == call.op = "structural_audit"

\* the audit returned a result (it did not raise)
AuditReturned == Audited /\ "decision" \in DOMAIN call.ret

\* float(proposed_action.get(key, 0.0))
ActionFloat(key) == Get(proposed_action, key, Zero)

\* the identifiability result: pass of the supplied check, is_identifiable without one
Identifiable ==
    IF identifiability_check # <<>> THEN identifiability_check[1][1]
    ELSE Get(proposed_action, "is_identifiable", FALSE)

\* velocity_km_s >= c
TooFast == FLe(C_KM_S, ActionFloat("velocity_km_s"))

HasPromotion ==
    /\ "current_existence_class" \in DOMAIN proposed_action
    /\ "target_existence_class" \in DOMAIN proposed_action

\* the promotion gate lets the action through
PromotionOk ==
    HasPromotion =>
        /\ proposed_action["target_existence_class"] \in 0..5
        /\ proposed_action["target_existence_class"] = proposed_action["current_existence_class"] + 1
        /\ Get(proposed_action, "new_constraint_count", 0) >= 1
        /\ Get(proposed_action, "new_evidence_count", 0) >=
              1 + (IF FLe(Num(4, 5), ActionFloat("coherence")) THEN 1 ELSE 0)
                + (IF FLe(Num(19, 20), ActionFloat("coherence")) THEN 1 ELSE 0)

DopplerOk == doppler_check # <<>> => Get(doppler_check[1], "within_threshold", FALSE)

NodeSplitOk ==
    node_split_check # <<>> =>
        /\ Get(node_split_check[1], "matrix_is_symmetric", FALSE)
        /\ ~FLt(Get(node_split_check[1], "evidence_score", Zero), ActionFloat("min_node_evidence_score"))

\* every gate ahead of the admissibility score lets the action through
EarlierGatesPass == ~TooFast /\ Identifiable /\ PromotionOk /\ DopplerOk /\ NodeSplitOk

\* utility * lambda_val^2 is a positive number
PositiveScore ==
    FGt(FMul(ActionFloat("utility"), FMul(ActionFloat("lambda_val"), ActionFloat("lambda_val"))), Zero)

\* C17: when the identifiability result is false (pass = false from the
\* supplied check, whose pass is rank >= required_rank, or is_identifiable
\* false or missing without a check), structural_audit never returns
\* ADMISSIBLE: it returns W2_VETO, or W1_VETO when velocity_km_s >= c; and an
\* identifiable action that passes every other gate and has a positive score
\* returns ADMISSIBLE.
C17_W2Absolute ==
    Audited =>
        /\ (identifiability_check # <<>>) =>
               identifiability_check[1][1] = (identifiability_check[1][2] >= identifiability_check[1][3])
        /\ ~Identifiable =>
               /\ AuditReturned
               /\ call.ret.decision = IF TooFast THEN "W1_VETO" ELSE "W2_VETO"
               /\ call.ret.decision # "ADMISSIBLE"
        /\ (EarlierGatesPass /\ PositiveScore) =>
               AuditReturned /\ call.ret.decision = "ADMISSIBLE"

\* a check with rank 1 < required_rank 2 on an otherwise admissible action gave W2_VETO
C17_Witness ==
    /\ AuditReturned
    /\ identifiability_check # <<>> /\ identifiability_check[1][2] < identifiability_check[1][3]
    /\ ~TooFast /\ PromotionOk /\ DopplerOk /\ NodeSplitOk /\ PositiveScore
    /\ call.ret.decision = "W2_VETO"

---------------------------------------------------------------------------
(* The multiplicative score *)

\* utility * lambda_val^2
Score == FMul(ActionFloat("utility"), FMul(ActionFloat("lambda_val"), ActionFloat("lambda_val")))

\* C18: for an action that passes every gate ahead of the score, a zero
\* lambda_val or a zero utility gives HARD_STOP with delta = 0 whatever the
\* other factor is; a score <= 0 gives HARD_STOP and a score > 0 gives
\* ADMISSIBLE with delta = utility * lambda_val^2.
C18_MultiplicativeZero ==
    (Audited /\ EarlierGatesPass) =>
        /\ AuditReturned
        /\ (FEq(ActionFloat("lambda_val"), Zero) \/ FEq(ActionFloat("utility"), Zero)) =>
               call.ret.decision = "HARD_STOP" /\ call.ret.delta = Zero
        /\ FLe(Score, Zero) => call.ret.decision = "HARD_STOP" /\ call.ret.delta = Zero
        /\ FGt(Score, Zero) => call.ret.decision = "ADMISSIBLE" /\ call.ret.delta = Score

---------------------------------------------------------------------------
(* Determinism *)

---------------------------------------------------------------------------
(* Schema-invalid bundles *)

MainCalled == call.op = "main"

\* C20: when the schema check fails, the composite verifier returns a report
\* (also for a bundle the evaluator would raise on, so the evaluator was not
\* called) whose evaluation is exactly VETO_POLICY with reasons
\* [SCHEMA_INVALID], whatever the evaluator would say of the bundle; and
\* overall_pass is false and the exit code 1 whether the signatures were not
\* verified, all valid or not.
C20_SchemaInvalidNeverEvaluated ==
    (MainCalled /\ ~call.schema_valid) =>
        /\ MainReturned
        /\ call.ret.evaluation = [status |-> "VETO_POLICY", reasons |-> <<"SCHEMA_INVALID">>]
        /\ ~call.ret.overall_pass
        /\ call.ret.exit_code = 1
        /\ call.ret.signatures =
               IF call.with_manifest THEN verify_bundle_signatures(bundle, key_manifest) ELSE NoSigReport

\* a schema-invalid bundle the evaluator would pass, with every signature
\* valid, was reported SCHEMA_INVALID and did not pass overall
C20_Witness ==
    /\ MainReturned /\ ~call.schema_valid /\ call.with_manifest
    /\ Get(evaluate_promotion_bundle(bundle, numeric_tolerance), "status", PyNone) = "PASS"
    /\ call.ret.signatures.all_valid
    /\ call.ret.evaluation.reasons = <<"SCHEMA_INVALID">>
    /\ ~call.ret.overall_pass

\* a schema-invalid bundle the evaluator raises on was reported SCHEMA_INVALID
C20_WitnessNoRaise ==
    /\ MainReturned /\ ~call.schema_valid
    /\ "raised" \in DOMAIN evaluate_promotion_bundle(bundle, numeric_tolerance)

---------------------------------------------------------------------------
(* The sign of the rank surrogate *)

PriorSpectrum == PriorSummary["singular_values"]
PosteriorSpectrum == PosteriorSummary["singular_values"]

RankCalled == call.op = "deltaf_rank_surrogate"

\* the spectrum has no positive entry: it is empty, or zero after the clamp
NoMass(s) == \A i \in DOMAIN s : s[i] <= 0

\* C21: deltaf_rank_surrogate returns a value strictly above zero whenever the
\* effective dimension of the posterior spectrum is smaller than a positive
\* effective dimension of the prior spectrum, and returns exactly 0.0 when the
\* prior effective dimension is not positive, as for an empty or all-zero
\* prior spectrum, whatever the posterior spectrum is.
C21_RankSurrogateSign ==
    RankCalled =>
        LET d_prior == effective_dimension_from_singulars(PriorSpectrum)
            d_post == effective_dimension_from_singulars(PosteriorSpectrum)
        IN /\ (FGt(d_prior, Zero) /\ FLt(d_post, d_prior)) => FGt(call.ret, Zero)
           /\ FLe(d_prior, Zero) => call.ret = Zero
           /\ NoMass(PriorSpectrum) => call.ret = Zero

\* the surrogate was called on a posterior of two equal values and a prior of
\* three, and returned one third
C21_Witness ==
    /\ RankCalled
    /\ PriorSpectrum = <<2, 2, 2>> /\ PosteriorSpectrum = <<2, 2>>
    /\ call.ret = Num(1, 3)

\* the surrogate was called on an all-zero prior and returned 0.0
C21_WitnessZeroPrior ==
    /\ RankCalled
    /\ PriorSpectrum = <<0, 0>> /\ PosteriorSpectrum = <<2>>
    /\ call.ret = Zero

---------------------------------------------------------------------------
(* How a failing signature is classified *)

\* the manifest item a signature's key_id names (the last one, if several do)
ItemOf(sig) ==
    LET keys == key_manifest["keys"]
        named == {i \in DOMAIN keys : "key_id" \in DOMAIN keys[i]
                                        /\ keys[i]["key_id"] = Get(sig, "key_id", PyNone)}
    IN IF named = {} THEN <<>> ELSE <<keys[CHOOSE i \in named : \A j \in named : j <= i]>>

SigAlgo(sig) == Lower(Get(sig, "algo", ""))

KeyText(sig) == IF "key_id" \in DOMAIN sig THEN sig["key_id"] ELSE "None"

\* the five failures of a signature, each on its own
UnknownKeyId(sig) == ItemOf(sig) = <<>>

AlgoMismatch(sig) == ItemOf(sig) # <<>> /\ SigAlgo(sig) # Lower(Get(ItemOf(sig)[1], "algo", ""))

UnsupportedAlgo(sig) == SigAlgo(sig) # "ed25519"

BadPublicKey(sig) == ItemOf(sig) # <<>> /\ "b64" \notin DOMAIN ItemOf(sig)[1]["public_key_b64"]

InvalidSignature(sig) ==
    ~ /\ ItemOf(sig) # <<>>
      /\ "b64" \in DOMAIN ItemOf(sig)[1]["public_key_b64"]
      /\ sig["signature_b64"] =
             b64encode([signer |-> ItemOf(sig)[1]["public_key_b64"].b64,
                        payload |-> canonical_json_bytes(Unsigned(Proof))])

\* the code of the first failure in the order of the claim, <<>> for none
FirstFailure(sig) ==
    IF UnknownKeyId(sig) THEN <<"UNKNOWN_KEY_ID:" \o KeyText(sig)>>
    ELSE IF AlgoMismatch(sig) THEN <<"ALGO_MISMATCH:" \o KeyText(sig)>>
    ELSE IF UnsupportedAlgo(sig) THEN <<"UNSUPPORTED_ALGO:" \o SigAlgo(sig)>>
    ELSE IF BadPublicKey(sig) THEN <<"BAD_PUBLIC_KEY_B64:" \o KeyText(sig)>>
    ELSE IF InvalidSignature(sig) THEN <<"INVALID_SIGNATURE:" \o KeyText(sig)>>
    ELSE <<>>

RECURSIVE FirstFailures(_)
FirstFailures(sigs) ==
    IF sigs = <<>> THEN <<>> ELSE FirstFailure(Head(sigs)) \o FirstFailures(Tail(sigs))

\* C22: verify_bundle_signatures classifies each failing signature by the
\* first check that fails, in the order UNKNOWN_KEY_ID, ALGO_MISMATCH,
\* UNSUPPORTED_ALGO, BAD_PUBLIC_KEY_B64, INVALID_SIGNATURE, so that a signature
\* adds at most one error code, and a signature whose algorithm is not
\* Ed25519 is never counted valid.
C22_FirstFailingCheck ==
    Verified =>
        /\ call.ret.errors = FirstFailures(Signatures)
        /\ Len(call.ret.errors) <= Len(Signatures)
        /\ call.ret.valid <= Cardinality({i \in DOMAIN Signatures : ~UnsupportedAlgo(Signatures[i])})

\* a valid Ed25519 signature of key-a labelled RSA was verified against a
\* manifest that lists key-a under Ed25519 with a public key that is not
\* base64: three checks fail, and the one code is that of the algorithm mismatch
C22_Witness ==
    /\ Verified
    /\ Signatures = <<LabelledEntry("key-a", "RSA")>>
    /\ key_manifest = [keys |-> <<ItemABadKey, ItemB>>]
    /\ AlgoMismatch(Signatures[1]) /\ UnsupportedAlgo(Signatures[1]) /\ BadPublicKey(Signatures[1])
    /\ call.ret.errors = <<"ALGO_MISMATCH:key-a">>

\* the same signature against a manifest that lists key-a under RSA was refused
\* as unsupported: there is no other algorithm to fall back on
C22_WitnessNoFallback ==
    /\ Verified
    /\ Signatures = <<LabelledEntry("key-a", "RSA")>>
    /\ key_manifest = [keys |-> <<ItemARsa, ItemB>>]
    /\ call.ret.errors = <<"UNSUPPORTED_ALGO:rsa">>
    /\ call.ret.valid = 0

---------------------------------------------------------------------------
(* The counters of the signature report *)

RECURSIVE ErrorsInOrder(_, _, _)
ErrorsInOrder(b, manifest, i) ==
    IF i > Len(Get(b["promotion_proof"], "signatures", <<>>)) THEN <<>>
    ELSE SignatureError(b, manifest, i) \o ErrorsInOrder(b, manifest, i + 1)

\* C23: verify_bundle_signatures accumulates instead of aborting: checked is
\* the number of attached signatures, valid + len(errors) = checked, the
\* errors are those of the failing signatures in the order of the signatures,
\* and a signature that follows a failing one is still verified and counted.
C23_AccumulatesAllSignatures ==
    Verified =>
        /\ call.ret.checked = Len(Signatures)
        /\ call.ret.valid + Len(call.ret.errors) = call.ret.checked
        /\ call.ret.errors = ErrorsInOrder(bundle, key_manifest, 1)
        /\ call.ret.valid = Cardinality(ValidSignatures(bundle, key_manifest))

\* a forged signature followed by a valid one was verified: both were checked,
\* the second counted valid, and the one error is that of the first
C23_Witness ==
    /\ Verified
    /\ Signatures = <<ForgedEntry, LabelledEntry("key-b", "Ed25519")>>
    /\ key_manifest = [keys |-> <<ItemA, ItemB>>]
    /\ call.ret.checked = 2 /\ call.ret.valid = 1
    /\ call.ret.errors = <<"INVALID_SIGNATURE:key-a">>

\* two failing signatures gave their two codes in the order of the signatures
C23_WitnessOrder ==
    /\ Verified
    /\ Len(Signatures) = 2
    /\ call.ret.errors = <<"UNKNOWN_KEY_ID:key-c", "INVALID_SIGNATURE:key-a">>

---------------------------------------------------------------------------
(* The order of the gates *)

\* the gates of the claim, each on its own
W1Fails == TooFast

W2Fails == ~Identifiable

\* the two class keys of the action name existence classes E0..E5
ValidClasses ==
    /\ proposed_action["current_existence_class"] \in 0..5
    /\ proposed_action["target_existence_class"] \in 0..5

\* 1, one more from coherence 0.8, one more from coherence 0.95
RequiredEvidence ==
    IF FLt(ActionFloat("coherence"), Num(4, 5)) THEN 1
    ELSE IF FLt(ActionFloat("coherence"), Num(19, 20)) THEN 2
    ELSE 3

\* the promotion rule allows the promotion the action asks for
PromotionAllowed ==
    /\ proposed_action["target_existence_class"] = proposed_action["current_existence_class"] + 1
    /\ Get(proposed_action, "new_constraint_count", 0) >= 1
    /\ Get(proposed_action, "new_evidence_count", 0) >= RequiredEvidence

EpistemicFails == HasPromotion /\ ~PromotionAllowed

W3Fails == doppler_check # <<>> /\ ~Get(doppler_check[1], "within_threshold", FALSE)

W4Fails == node_split_check # <<>> /\ ~Get(node_split_check[1], "matrix_is_symmetric", FALSE)

RefuseFails ==
    /\ node_split_check # <<>>
    /\ FLt(Get(node_split_check[1], "evidence_score", Zero), ActionFloat("min_node_evidence_score"))

HardStopFails == FLe(Score, Zero)

\* the decision of the first gate of the order that fails, ADMISSIBLE for none
FirstFailingGate ==
    IF W1Fails THEN "W1_VETO"
    ELSE IF W2Fails THEN "W2_VETO"
    ELSE IF EpistemicFails THEN "EPISTEMIC_VETO"
    ELSE IF W3Fails THEN "W3_VETO"
    ELSE IF W4Fails THEN "W4_VETO"
    ELSE IF RefuseFails THEN "REFUSE_UNCERTAIN"
    ELSE IF HardStopFails THEN "HARD_STOP"
    ELSE "ADMISSIBLE"

GatesFailing ==
    {g \in {"W1", "W2", "EPISTEMIC", "W3", "W4", "REFUSE", "HARD_STOP"} :
        \/ g = "W1" /\ W1Fails
        \/ g = "W2" /\ W2Fails
        \/ g = "EPISTEMIC" /\ EpistemicFails
        \/ g = "W3" /\ W3Fails
        \/ g = "W4" /\ W4Fails
        \/ g = "REFUSE" /\ RefuseFails
        \/ g = "HARD_STOP" /\ HardStopFails}

\* C24: structural_audit returns the decision of the first gate that fails in
\* the order W1_VETO (velocity_km_s >= c), W2_VETO (not identifiable),
\* EPISTEMIC_VETO (both class keys in the action and the promotion not
\* allowed), W3_VETO (a doppler check that is not within threshold), W4_VETO
\* (a node-split check whose matrix is not symmetric), REFUSE_UNCERTAIN (a
\* node-split check whose evidence score is below min_node_evidence_score),
\* HARD_STOP (delta <= 0), and ADMISSIBLE iff no gate fails; a gate whose
\* optional input is absent does not fail.
C24_FirstFailingGate ==
    AuditReturned =>
        /\ call.ret.decision = FirstFailingGate
        /\ (call.ret.decision = "ADMISSIBLE") = (GatesFailing = {})
        /\ (~HasPromotion /\ doppler_check = <<>> /\ node_split_check = <<>>) =>
               call.ret.decision \in {"W1_VETO", "W2_VETO", "HARD_STOP", "ADMISSIBLE"}

\* an audit where the promotion gate, the doppler gate and the symmetry gate
\* all fail returned EPISTEMIC_VETO
C24_Witness ==
    /\ AuditReturned
    /\ GatesFailing = {"EPISTEMIC", "W3", "W4"}
    /\ call.ret.decision = "EPISTEMIC_VETO"

\* an audit with no promotion payload, no doppler check and no node-split check was ADMISSIBLE
C24_WitnessAbsentGates ==
    /\ AuditReturned
    /\ ~HasPromotion /\ doppler_check = <<>> /\ node_split_check = <<>>
    /\ call.ret.decision = "ADMISSIBLE"

---------------------------------------------------------------------------
(* The promotion rule *)

Promoted == call.op = "evaluate_existence_promotion"

\* C25: the promotion rule allows a promotion iff the target class is the
\* current class plus one, new_constraint_count >= 1 and new_evidence_count
\* >= required_evidence, which is 1, plus 1 when coherence >= 0.8, plus 1 more
\* when coherence >= 0.95; and in an action that passed W1 and W2 and carries
\* both class keys, every promotion the rule does not allow gives
\* EPISTEMIC_VETO, and no allowed one does.
C25_PromotionRule ==
    /\ Promoted =>
           /\ call.ret.allowed = PromotionAllowed
           /\ call.ret.allowed => call.ret.required_evidence = RequiredEvidence
           /\ RequiredEvidence =
                  1 + (IF FLe(Num(4, 5), ActionFloat("coherence")) THEN 1 ELSE 0)
                    + (IF FLe(Num(19, 20), ActionFloat("coherence")) THEN 1 ELSE 0)
    /\ (Audited /\ ~TooFast /\ Identifiable /\ HasPromotion /\ ValidClasses) =>
           /\ AuditReturned
           /\ (call.ret.decision = "EPISTEMIC_VETO") = ~PromotionAllowed

\* a promotion E2 -> E3 at coherence 0.95 with two new pieces of evidence and a
\* new constraint, in an action past W1 and W2, was vetoed: it needs three
C25_Witness ==
    /\ AuditReturned /\ ~TooFast /\ Identifiable /\ HasPromotion
    /\ proposed_action["current_existence_class"] = 2
    /\ proposed_action["target_existence_class"] = 3
    /\ ActionFloat("coherence") = Num(19, 20)
    /\ Get(proposed_action, "new_evidence_count", 0) = 2
    /\ Get(proposed_action, "new_constraint_count", 0) >= 1
    /\ call.ret.decision = "EPISTEMIC_VETO"

\* the rule allowed the same promotion with three pieces of evidence
C25_WitnessAllowed ==
    /\ Promoted
    /\ ActionFloat("coherence") = Num(19, 20)
    /\ Get(proposed_action, "new_evidence_count", 0) = 3
    /\ call.ret.allowed /\ call.ret.required_evidence = 3

---------------------------------------------------------------------------
(* The delta of an AuditResult *)

\* C26: every AuditResult whose decision is not ADMISSIBLE has delta = 0, and
\* every ADMISSIBLE result has delta = utility * lambda_val^2, which is above 0.
C26_DeltaMatchesDecision ==
    AuditReturned =>
        /\ call.ret.decision # "ADMISSIBLE" => call.ret.delta = Zero
        /\ call.ret.decision = "ADMISSIBLE" =>
               /\ FEq(call.ret.delta, Score)
               /\ FGt(call.ret.delta, Zero)

---------------------------------------------------------------------------
(* Missing fields *)

Missing(key) == key \notin DOMAIN proposed_action

\* C29: structural_audit fails closed on missing fields: an action with no
\* is_identifiable and no identifiability check gets W2_VETO, an action with
\* no utility or no lambda_val gets HARD_STOP, a doppler check without
\* within_threshold gets W3_VETO and a node-split check without
\* matrix_is_symmetric gets W4_VETO (each unless an earlier gate fails), so
\* none of these omissions leads to ADMISSIBLE; and with an identifiability
\* check supplied the action's own is_identifiable is ignored.
C29_FailsClosedOnMissing ==
    Audited =>
        /\ (Missing("is_identifiable") /\ identifiability_check = <<>>) =>
               /\ AuditReturned /\ call.ret.decision # "ADMISSIBLE"
               /\ ~TooFast => call.ret.decision = "W2_VETO"
        /\ (Missing("utility") \/ Missing("lambda_val")) =>
               /\ AuditReturned => call.ret.decision # "ADMISSIBLE"
               /\ EarlierGatesPass => (AuditReturned /\ call.ret.decision = "HARD_STOP")
        /\ (doppler_check # <<>> /\ "within_threshold" \notin DOMAIN doppler_check[1]) =>
               /\ AuditReturned => call.ret.decision # "ADMISSIBLE"
               /\ (~TooFast /\ Identifiable /\ PromotionOk) =>
                      (AuditReturned /\ call.ret.decision = "W3_VETO")
        /\ (node_split_check # <<>> /\ "matrix_is_symmetric" \notin DOMAIN node_split_check[1]) =>
               /\ AuditReturned => call.ret.decision # "ADMISSIBLE"
               /\ (~TooFast /\ Identifiable /\ PromotionOk /\ DopplerOk) =>
                      (AuditReturned /\ call.ret.decision = "W4_VETO")
        /\ (identifiability_check # <<>> /\ AuditReturned /\ ~TooFast) =>
               (call.ret.decision = "W2_VETO") = ~identifiability_check[1][1]

---------------------------------------------------------------------------
(* When the evaluator refuses *)

\* the identity, monotonicity, recomputation and numeric-equality checks let
\* the bundle through: the last one as the test the evaluator makes, which
\* fires when |recomputed - claimed| > numeric_tolerance
ChecksOneToFourPass ==
    /\ IdsMatch
    /\ OneStepUp
    /\ Recomputed.ok
    /\ IsNumber(Claimed)
    /\ ~OffByMoreThanTolerance

\* C27: evaluate_promotion_bundle returns REFUSE_UNCERTAIN iff checks 1-4
\* pass, the recomputed deltaF is strictly below the threshold and no required
\* constraint is missing; its reasons are then exactly
\* [DELTAF_BELOW_THRESHOLD]. The threshold is compared with the recomputed
\* value, never the claimed one, and a recomputed value equal to the
\* threshold is not below it.
C27_RefuseIffBelowThreshold ==
    /\ Reported =>
           /\ (call.ret.status = "REFUSE_UNCERTAIN") =
                  (ChecksOneToFourPass /\ BelowThreshold /\ MissingConstraints = {})
           /\ call.ret.status = "REFUSE_UNCERTAIN" =>
                  call.ret.reasons = <<"DELTAF_BELOW_THRESHOLD">>
    /\ (Evaluated /\ ChecksOneToFourPass /\ BelowThreshold /\ MissingConstraints = {}) => Reported
    /\ (Reported /\ ChecksOneToFourPass /\ IsNumber(Threshold) /\ FEq(Recomputed.val, Threshold)) =>
           call.ret.status # "REFUSE_UNCERTAIN"

\* a bundle whose claimed deltaF 3/4 meets the threshold 3/4 and whose
\* recomputed deltaF 1/2 (within the tolerance 1/4 of the claim) does not was
\* refused
C27_Witness ==
    /\ Reported
    /\ Claimed = Num(3, 4) /\ Threshold = Num(3, 4) /\ Recomputed.val = Num(1, 2)
    /\ ChecksOneToFourPass /\ MissingConstraints = {}
    /\ call.ret.status = "REFUSE_UNCERTAIN"
    /\ call.ret.reasons = <<"DELTAF_BELOW_THRESHOLD">>

\* a recomputed deltaF equal to the threshold passed
C27_WitnessEqual ==
    /\ Reported
    /\ ChecksOneToFourPass /\ FEq(Recomputed.val, Threshold)
    /\ call.ret.status = "PASS"

---------------------------------------------------------------------------
(* What attaching a signature changes *)

AttachCalled == call.op = "attach_signature_ed25519"

\* the entry of key_id over the canonical bytes of the proof without its signatures
EntryOver(proof, key_id) ==
    [key_id |-> key_id,
     algo |-> "Ed25519",
     signature_b64 |-> b64encode([signer |-> PublicKeyOf(PrivateKeyOf(key_id)),
                                  payload |-> canonical_json_bytes(Unsigned(proof))])]

C28_WitnessNoList ==
    /\ AttachCalled
    /\ "signatures" \notin DOMAIN call.proof
    /\ "signatures" \notin DOMAIN Proof
    /\ Len(call.ret["signatures"]) = 1

---------------------------------------------------------------------------
(* Classes the lattice does not know *)

\* the class name the lookup fails on: from_class is looked up first, and a
\* missing key is read as the empty name
FirstUnknownClass == IF FromClass \notin Classes THEN FromClass ELSE ToClass

\* C30: when the ids match and from_class or to_class is missing or is not
\* one of the six class names, evaluate_promotion_bundle does not return a
\* VETO_POLICY report: the ValueError "Unknown existence class" of the
\* monotonicity step leaves the call; when the ids do not match, the identity
\* check has returned its veto before the classes are looked at.
C30_UnknownClassRaises ==
    (Evaluated /\ ~KnownClasses) =>
        IF IdsMatch
        THEN /\ ~Reported
             /\ call.ret = [raised |-> "ValueError",
                            msg |-> "Unknown existence class: " \o FirstUnknownClass]
        ELSE /\ Reported
             /\ call.ret.reasons = <<"REQUEST_PROOF_ID_MISMATCH">>

\* a bundle with matching ids and a to_class that is no class name was
\* evaluated, and the call raised
C30_Witness ==
    /\ Evaluated /\ IdsMatch
    /\ FromClass \in Classes /\ ToClass = UnknownClass
    /\ "raised" \in DOMAIN call.ret
    /\ call.ret.msg = "Unknown existence class: E6_TRANSCENDENT"

\* a bundle with matching ids and no from_class was evaluated, and the call raised
C30_WitnessMissing ==
    /\ Evaluated /\ IdsMatch
    /\ "from_class" \notin DOMAIN Request
    /\ "raised" \in DOMAIN call.ret

====
